---- MODULE Spec2Model ----
(***************************************************************************)
(* The URL risk analysis pipeline of fortai-system:                        *)
(*   backend/app/services/url_analyzer.py   URLAnalyzer                    *)
(*   backend/app/services/ml_classifier.py  MLClassifier                   *)
(*   backend/app/worker.py, backend/app/api/analysis.py   the job runners  *)
(*                                                                         *)
(* Python dicts are functions with a string domain, lists are sequences.   *)
(* Scores are fixed point: a classifier score s is the integer s * 10000,  *)
(* a classifier confidence c is c * 100, a risk score r and the confidence *)
(* of an assessment c are r * 1000 and c * 1000.                           *)
(***************************************************************************)
EXTENDS Integers, Sequences, FiniteSets, TLC

(***************************************************************************)
(* Bounds of the model                                                     *)
(***************************************************************************)
\* longest run of redirect responses a modelled server answers with
MaxRedirects == 6
\* most suspicious keywords in a URL given to the risk compiler
MaxKeywords == 2
\* calls of the risk compiler made on one analysis record
MaxCalls == 2

(***************************************************************************)
(* State                                                                   *)
(*   job_url          the URL of the submitted job                         *)
(*   pc               position of the job: in the endpoint, the runner     *)
(*                    (analyze_url_task / _analyze_url_async) or analyze   *)
(*   session          URLAnalyzer.session: "none", "open" or "closed"      *)
(*   analysis_result  the dict analyze builds                              *)
(*   ran              the operations analyze has started, in order         *)
(*   written          the keys assigned in analysis_result, in order       *)
(*   pending          how the try body of analyze was left                 *)
(*   exit             how analyze ended: "none", "returned", "raised"      *)
(*   error            the text of the exception in flight                  *)
(*   job              the AnalysisJob row of the job store                 *)
(*   store_log        the statuses committed to the job store, in order    *)
(*   origin           the server a redirect tracing talks to               *)
(*   trace_result     the result of that tracing                           *)
(*   calls            the calls of _compile_risk_assessment made on        *)
(*                    analysis_result, each with its classifier            *)
(*   loop             the locals of the redirect loop and the requests     *)
(*                    issued, when the tracing is followed GET by GET      *)
(*   tasks            two background tasks running in one process: their   *)
(*                    positions, their locals and the objects they made    *)
(*   runners          the two job runners run on the same outcomes, each   *)
(*                    with the updates it issued                           *)
(***************************************************************************)
VARIABLES job_url, pc, session, analysis_result, ran, written, pending, exit,
          error, job, store_log, origin, trace_result, calls, loop, tasks,
          runners

vars == <<job_url, pc, session, analysis_result, ran, written, pending, exit,
          error, job, store_log, origin, trace_result, calls, loop, tasks,
          runners>>

analyze_vars == <<session, analysis_result, ran, written, pending, exit>>
store_vars == <<job, store_log>>
side_vars == <<loop, tasks, runners>>
probe_vars == <<origin, trace_result, calls, side_vars>>

(***************************************************************************)
(* dict helpers                                                            *)
(***************************************************************************)
None == "None"

EmptyDict == [k \in {} |-> None]

\* d[k] = v
Put(d, k, v) == [x \in (DOMAIN d) \cup {k} |-> IF x = k THEN v ELSE d[x]]

\* d.get(k, default)
Get(d, k, default) == IF k \in DOMAIN d THEN d[k] ELSE default

\* d.update(e)
Update(d, e) == [x \in (DOMAIN d) \cup (DOMAIN e) |-> IF x \in DOMAIN e THEN e[x] ELSE d[x]]

\* lst[:n]
Take(lst, n) == SubSeq(lst, 1, IF Len(lst) < n THEN Len(lst) ELSE n)

(***************************************************************************)
(* Input URLs.  A URL string is represented by what the parsers of the     *)
(* pipeline read from it:                                                  *)
(*   scheme      "http", "https", or "none" when the string has no scheme  *)
(*   parse_ok    urllib.parse.urlparse accepts the string                  *)
(*   port_ok     ParseResult.port does not raise (port absent or 0..65535) *)
(*   host        the netloc                                                *)
(*   is_ip       socket.inet_aton accepts the netloc                       *)
(*   has_punycode  idna.decode(netloc) differs from the netloc             *)
(*   length      len() of the stripped string                              *)
(*   padding     the whitespace characters strip() removes from it, when   *)
(*               there are any                                             *)
(*   raw_parse_ok  whether urlparse accepts the string as submitted, when  *)
(*               that differs from parse_ok                                *)
(*   keywords    the suspicious keywords that occur in it, in list order   *)
(*   shortener   'bit.ly' or 'tinyurl' occurs in it                        *)
(*   embeds_ipv4 the dotted-quad regular expression matches it             *)
(***************************************************************************)
\* "https://example.com/"
UrlPlain ==
    [name |-> "https://example.com/", scheme |-> "https", parse_ok |-> TRUE,
     port_ok |-> TRUE, host |-> "example.com", is_ip |-> FALSE,
     has_punycode |-> FALSE, length |-> 20, keywords |-> <<>>,
     shortener |-> FALSE, embeds_ipv4 |-> FALSE]

\* "http://192.168.0.5/login"
UrlIpLogin ==
    [name |-> "http://192.168.0.5/login", scheme |-> "http", parse_ok |-> TRUE,
     port_ok |-> TRUE, host |-> "192.168.0.5", is_ip |-> TRUE,
     has_punycode |-> FALSE, length |-> 24, keywords |-> <<"login">>,
     shortener |-> FALSE, embeds_ipv4 |-> TRUE]

\* "https://example.com:99999/" : ParseResult.port raises ValueError
UrlBadPort ==
    [name |-> "https://example.com:99999/", scheme |-> "https", parse_ok |-> TRUE,
     port_ok |-> FALSE, host |-> "example.com:99999", is_ip |-> FALSE,
     has_punycode |-> FALSE, length |-> 26, keywords |-> <<>>,
     shortener |-> FALSE, embeds_ipv4 |-> FALSE]

\* "http://[::1" : urlparse raises ValueError('Invalid IPv6 URL')
UrlBadParse ==
    [name |-> "http://[::1", scheme |-> "http", parse_ok |-> FALSE,
     port_ok |-> TRUE, host |-> "[::1", is_ip |-> FALSE,
     has_punycode |-> FALSE, length |-> 11, keywords |-> <<>>,
     shortener |-> FALSE, embeds_ipv4 |-> FALSE]

\* "xn--pple-43d.com/secure/account/..." : 95 characters, no scheme
UrlLongPuny ==
    [name |-> "xn--pple-43d.com/secure/account/...", scheme |-> "none", parse_ok |-> TRUE,
     port_ok |-> TRUE, host |-> "xn--pple-43d.com", is_ip |-> FALSE,
     has_punycode |-> TRUE, length |-> 95, keywords |-> <<"secure", "account">>,
     shortener |-> FALSE, embeds_ipv4 |-> FALSE]

\* "http://bit.ly/3xYz"
UrlShort ==
    [name |-> "http://bit.ly/3xYz", scheme |-> "http", parse_ok |-> TRUE,
     port_ok |-> TRUE, host |-> "bit.ly", is_ip |-> FALSE,
     has_punycode |-> FALSE, length |-> 18, keywords |-> <<>>,
     shortener |-> TRUE, embeds_ipv4 |-> FALSE]

\* "http://host.test/a/10.0.0.1/..." : 101 characters, an IPv4 pattern in
\* the path
UrlPathIpv4 ==
    [name |-> "http://host.test/a/10.0.0.1/...", scheme |-> "http", parse_ok |-> TRUE,
     port_ok |-> TRUE, host |-> "host.test", is_ip |-> FALSE,
     has_punycode |-> FALSE, length |-> 101, keywords |-> <<>>,
     shortener |-> FALSE, embeds_ipv4 |-> TRUE]

\* "http://host.test/10.0.0.1/" followed by 80 spaces: 106 characters, 26
\* once stripped
UrlPadded ==
    [name |-> "http://host.test/10.0.0.1/ ...", scheme |-> "http", parse_ok |-> TRUE,
     port_ok |-> TRUE, host |-> "host.test", is_ip |-> FALSE,
     has_punycode |-> FALSE, length |-> 26, padding |-> 80, keywords |-> <<>>,
     shortener |-> FALSE, embeds_ipv4 |-> TRUE]

\* "//[::1" : normalization makes it "https:////[::1", an empty netloc and a
\* path; as submitted its netloc is "[::1" and urlparse raises ValueError
UrlSlashBracket ==
    [name |-> "//[::1", scheme |-> "none", parse_ok |-> TRUE, raw_parse_ok |-> FALSE,
     port_ok |-> TRUE, host |-> "", is_ip |-> FALSE, has_punycode |-> FALSE,
     length |-> 6, keywords |-> <<>>, shortener |-> FALSE, embeds_ipv4 |-> FALSE]

\* whether urlparse accepts the string analyze was called with
RawParses(url) == Get(url, "raw_parse_ok", url.parse_ok)

\* len(url) of the string analyze was called with
RawLength(url) == url.length + Get(url, "padding", 0)

\* the URLs submitted to the pipeline
PipelineUrls ==
    {UrlPlain, UrlIpLogin, UrlBadPort, UrlBadParse, UrlLongPuny, UrlShort,
     UrlSlashBracket}

(***************************************************************************)
(* Step 1: URL normalization & safety checks                               *)
(***************************************************************************)
SchemePrefixLen == 8

\* url = url.strip(); if not url.startswith(('http://','https://')): url = 'https://' + url
NormalizedUrl(u) ==
    IF u.scheme = "none"
    THEN [u EXCEPT !.scheme = "https", !.length = u.length + SchemePrefixLen]
    ELSE u

\* urlparse is called outside any try block: a ValueError escapes the stage
normalize_raises(u) == ~NormalizedUrl(u).parse_ok

normalize_and_check_url(u) ==
    LET normalized == NormalizedUrl(u) IN
    [original_url |-> normalized.name,
     domain |-> normalized.host,
     is_ip |-> normalized.is_ip,
     has_punycode |-> normalized.has_punycode,
     url_length |-> normalized.length]

(***************************************************************************)
(* Step 2: DNS & WHOIS lookup                                              *)
(***************************************************************************)
DnsOutcomes == {"resolved", "dns_fails"}
WhoisOutcomes == {"found", "no_creation_date", "whois_fails"}

dns_whois_raises(url) == ~url.parse_ok

\* variant: the lookup derives domain_age_days from the creation date
dns_and_whois_lookup_with_age(url, dns, who) ==
    LET d0 == EmptyDict
        d1 == IF dns = "resolved"
              THEN Put(d0, "a_records", <<"93.184.216.34">>)
              ELSE Put(d0, "dns_error", "NXDOMAIN")
        d2 == CASE who = "found" ->
                     Put(Put(Put(Put(d1, "creation_date", "2001-01-01"),
                                 "registrar", "registrar"), "name_servers", <<"ns1">>),
                         "domain_age_days", 30)
                [] who = "no_creation_date" ->
                     Put(Put(Put(d1, "creation_date", None),
                             "registrar", None), "name_servers", <<>>)
                [] OTHER -> Put(d1, "whois_error", "timed out")
    IN d2

dns_and_whois_lookup(url, dns, who) ==
    LET d0 == EmptyDict
        d1 == IF dns = "resolved"
              THEN Put(d0, "a_records", <<"93.184.216.34">>)
              ELSE Put(d0, "dns_error", "NXDOMAIN")
        d2 == CASE who = "found" ->
                     Put(Put(Put(d1, "creation_date", "2001-01-01"),
                             "registrar", "registrar"), "name_servers", <<"ns1">>)
                [] who = "no_creation_date" ->
                     Put(Put(Put(d1, "creation_date", None),
                             "registrar", None), "name_servers", <<>>)
                [] OTHER -> Put(d1, "whois_error", "timed out")
    IN d2

(***************************************************************************)
(* Step 3: TLS certificate analysis                                        *)
(***************************************************************************)
TlsOutcomes == {"handshake_ok", "handshake_fails"}

\* urlparse and parsed.port are evaluated outside the try block
tls_cert_raises(url) == ~url.parse_ok \/ ~url.port_ok

\* variant: the error is recorded next to the fields read before the failure
tls_cert_analysis_partial(url, tls) ==
    IF url.scheme = "https"
    THEN IF tls = "handshake_ok"
         THEN [subject |-> "CN=host", issuer |-> "CN=ca", not_before |-> "t0",
               not_after |-> "t1", serial_number |-> "01"]
         ELSE [subject |-> "CN=host", cert_error |-> "handshake failed"]
    ELSE EmptyDict

tls_cert_analysis(url, tls) ==
    IF url.scheme = "https"
    THEN IF tls = "handshake_ok"
         THEN [subject |-> "CN=host", issuer |-> "CN=ca", not_before |-> "t0",
               not_after |-> "t1", serial_number |-> "01"]
         ELSE Put(EmptyDict, "cert_error", "handshake failed")
    ELSE EmptyDict

(***************************************************************************)
(* Step 4: HTTP fetch and redirect chain                                   *)
(*                                                                         *)
(* A URL on the wire is <<host, path>>.  A Location header is a URL, or    *)
(* <<"", path>> for a relative reference, or NoLocation when absent.       *)
(* A server is the sequence of its answers to the successive GET requests. *)
(* An answer is a response [status, location, body] or a network error.    *)
(* A body is an HTML document (see step 7) or UnreadableBody when          *)
(* response.text() raises.                                                 *)
(***************************************************************************)
RedirectCodes == {301, 302, 303, 307, 308}
\* variant: one more hop is followed
MaxHopsPlusOne == 5 + 1
MaxHops == 5

NoLocation == <<>>
NetworkError == [error |-> "ClientConnectorError"]

IsError(answer) == "error" \in DOMAIN answer

\* urllib.parse.urljoin(current_url, location)
urljoin(current_url, location) ==
    IF location[1] = "" THEN <<current_url[1], location[2]>> ELSE location

\* the wire form of the normalized URL
WireUrl(url) == <<url.host, "/">>

\* HTML documents: length of the text, title words, forms, and whether
\* BeautifulSoup can parse the text
NoHtml == [len |-> 0, title |-> <<>>, forms |-> <<>>, parsable |-> TRUE]
UnreadableBody == [len |-> -1, title |-> <<>>, forms |-> <<>>, parsable |-> FALSE]

http_data_initial(url) ==
    [redirect_chain |-> <<>>, final_url |-> url, status_code |-> None,
     headers |-> EmptyDict, html_content |-> NoHtml]

HeadersOf(response) ==
    IF response.location = NoLocation THEN EmptyDict
    ELSE Put(EmptyDict, "Location", response.location)

\* the loop of lines 182-196 and the lines after it, holding answer number i
RECURSIVE redirect_loop(_, _, _, _, _)
\* variant: the hop is recorded once its re-fetch has answered
redirect_loop_hop_after_fetch(server, i, current_url, redirect_count, http_data) ==
    LET response == server[i] IN
    IF response.status \in RedirectCodes /\ redirect_count < MaxHops
          /\ response.location # NoLocation
    THEN LET hop == [url |-> current_url, status |-> response.status,
                     location |-> response.location]
             recorded == [http_data EXCEPT !.redirect_chain = Append(@, hop)]
             next_url == urljoin(current_url, response.location)
         IN  IF IsError(server[i + 1])
             THEN Put(http_data, "http_error", server[i + 1].error)
             ELSE redirect_loop(server, i + 1, next_url, redirect_count + 1, recorded)
    ELSE LET final == [http_data EXCEPT !.final_url = current_url,
                                        !.status_code = response.status,
                                        !.headers = HeadersOf(response)]
         IN  IF response.status = 200
             THEN IF response.body = UnreadableBody
                  THEN Put(final, "http_error", "UnicodeDecodeError")
                  ELSE [final EXCEPT !.html_content = response.body]
             ELSE final

redirect_loop(server, i, current_url, redirect_count, http_data) ==
    LET response == server[i] IN
    IF response.status \in RedirectCodes /\ redirect_count < MaxHops
          /\ response.location # NoLocation
    THEN LET hop == [url |-> current_url, status |-> response.status,
                     location |-> response.location]
             recorded == [http_data EXCEPT !.redirect_chain = Append(@, hop)]
             next_url == urljoin(current_url, response.location)
         IN  IF IsError(server[i + 1])
             THEN Put(recorded, "http_error", server[i + 1].error)
             ELSE redirect_loop(server, i + 1, next_url, redirect_count + 1, recorded)
    ELSE LET final == [http_data EXCEPT !.final_url = current_url,
                                        !.status_code = response.status,
                                        !.headers = HeadersOf(response)]
         IN  IF response.status = 200
             THEN IF response.body = UnreadableBody
                  THEN Put(final, "http_error", "UnicodeDecodeError")
                  ELSE [final EXCEPT !.html_content = response.body]
             ELSE final

\* variant: the body of the last response is read whatever its status
http_fetch_and_redirects_reads_any_status(url, server) ==
    IF IsError(server[1])
    THEN Put(http_data_initial(url), "http_error", server[1].error)
    ELSE LET http_data == redirect_loop(server, 1, url, 0, http_data_initial(url))
         IN  IF "http_error" \in DOMAIN http_data
             THEN http_data
             ELSE [http_data EXCEPT
                      !.html_content = server[Len(http_data.redirect_chain) + 1].body]

http_fetch_and_redirects(url, server) ==
    IF IsError(server[1])
    THEN Put(http_data_initial(url), "http_error", server[1].error)
    ELSE redirect_loop(server, 1, url, 0, http_data_initial(url))

(***************************************************************************)
(* Step 5: URL token analysis                                              *)
(***************************************************************************)
suspicious_keywords ==
    <<"login", "signin", "secure", "verify", "account", "bank", "paypal",
      "amazon", "google", "microsoft", "apple", "facebook", "update">>

token_analysis_raises(url) == ~url.parse_ok

\* the keywords of the list that occur in the URL, in list order
url_token_analysis(url) ==
    [suspicious_keywords |->
         SelectSeq(suspicious_keywords,
                   LAMBDA k : \E j \in 1..Len(url.keywords) : url.keywords[j] = k),
     long_hex_tokens |-> <<>>,
     base64_patterns |-> <<>>,
     has_homoglyphs |-> FALSE]

(***************************************************************************)
(* Step 6: Reputation checks (placeholder)                                 *)
(***************************************************************************)
NeutralReputation == 50

reputation_checks(url) ==
    [phishtank_result |-> None, virustotal_result |-> None,
     safebrowsing_result |-> None, reputation_score |-> NeutralReputation]

(***************************************************************************)
(* Step 7: Content analysis                                                *)
(***************************************************************************)
\* str.lower() on the input names the model uses
Lower(s) ==
    CASE s = "Email" -> "email"
      [] s = "PASSWORD" -> "password"
      [] OTHER -> s

LoginFieldNames == {"username", "email", "password"}

content_analysis(html_content) ==
    IF html_content.len = 0
    THEN Put(EmptyDict, "content_error", "No HTML content available")
    ELSE IF ~html_content.parsable
    THEN Put(EmptyDict, "content_analysis_error", "parser error")
    ELSE [title |-> html_content.title,
          forms |-> html_content.forms,
          external_links |-> <<>>,
          suspicious_elements |-> <<>>,
          has_login_form |->
              \E f \in 1..Len(html_content.forms) :
                  \E n \in 1..Len(html_content.forms[f].inputs) :
                      Lower(html_content.forms[f].inputs[n].name) \in LoginFieldNames]

(***************************************************************************)
(* Step 8: Screenshot and dynamic analysis                                 *)
(*                                                                         *)
(* What the headless browser does with the page:                           *)
(*   kind   "launch_fails"  ScreenshotService.__aenter__ raises            *)
(*          "page_error"    page.goto or a later call raises or times out  *)
(*          "rendered"      the page is rendered                           *)
(*   forms  the forms of the DOM; an action is <<prefix, rest>>, the text  *)
(*          prefix \o rest, so that action.startswith(h) iff prefix = h    *)
(*   external_scripts  number of script resources with external = true     *)
(*   title  the words of the page title                                    *)
(***************************************************************************)
ExternalScriptLimit == 5

capture_initial ==
    [screenshot_base64 |-> None, forms_detected |-> <<>>,
     external_resources |-> <<>>, page_title |-> <<>>,
     meta_description |-> <<>>, viewport_content |-> <<>>]

\* variant: each finding is stored in the result as soon as it is collected
capture_screenshot_and_analyze_eager(browser) ==
    IF browser.kind = "rendered"
    THEN Update(capture_initial,
                [screenshot_base64 |-> "iVBORw0KGgo=",
                 forms_detected |-> browser.forms,
                 external_resources |->
                     [i \in 1..browser.external_scripts |->
                         [type |-> "script", external |-> TRUE]],
                 page_title |-> browser.title])
    ELSE Put(Update(capture_initial,
                    [forms_detected |-> browser.forms, page_title |-> browser.title]),
             "error", "Page load timeout")

capture_screenshot_and_analyze(browser) ==
    IF browser.kind = "rendered"
    THEN Update(capture_initial,
                [screenshot_base64 |-> "iVBORw0KGgo=",
                 forms_detected |-> browser.forms,
                 external_resources |->
                     [i \in 1..browser.external_scripts |->
                         [type |-> "script", external |-> TRUE]],
                 page_title |-> browser.title])
    ELSE Put(capture_initial, "error", "Page load timeout")

\* the indicators one form contributes (lines 422-428)
form_indicators(form, url) ==
    LET action == Get(form, "action", <<"", "">>)
        inputs == Get(form, "inputs", <<>>)
        posts_external == /\ action # <<"", "">>
                          /\ action[1] # url.host
        login_pattern == /\ \E n \in 1..Len(inputs) : Get(inputs[n], "type", "") = "password"
                         /\ \E n \in 1..Len(inputs) : Lower(Get(inputs[n], "name", "")) = "email"
    IN  (IF posts_external THEN <<"Form posts to external domain">> ELSE <<>>)
        \o (IF login_pattern
            THEN <<"Contains login form with email/password fields">> ELSE <<>>)

RECURSIVE forms_indicators(_, _)
forms_indicators(forms, url) ==
    IF forms = <<>> THEN <<>>
    ELSE form_indicators(Head(forms), url) \o forms_indicators(Tail(forms), url)

dynamic_screenshot_analysis(url, browser) ==
    IF browser.kind = "launch_fails"
    THEN [analysis_success |-> FALSE, error |-> "BrowserType.launch failed",
          phishing_indicators |-> <<>>]
    ELSE LET screenshot_result == capture_screenshot_and_analyze(browser)
             forms == Get(screenshot_result, "forms_detected", <<>>)
             external_resources == Get(screenshot_result, "external_resources", <<>>)
             external_script_count ==
                 Len(SelectSeq(external_resources,
                               LAMBDA r : Get(r, "type", None) = "script"
                                          /\ Get(r, "external", FALSE)))
             phishing_indicators ==
                 forms_indicators(forms, url)
                 \o (IF external_script_count > ExternalScriptLimit
                     THEN <<"High number of external scripts ("
                            \o ToString(external_script_count) \o ")">>
                     ELSE <<>>)
         IN  Put(Put(screenshot_result, "phishing_indicators", phishing_indicators),
                 "analysis_success", TRUE)

(***************************************************************************)
(* MLClassifier                                                            *)
(*                                                                         *)
(* A classifier object is what its construction produced:                  *)
(*   is_trained      _initialize_pretrained_model succeeded                *)
(*   predict_raises  scaling or predict_proba raises inside classify       *)
(*   url_score       predict_proba(...)[0][1] of the forest fitted on the  *)
(*                   np.random calibration data of this construction       *)
(* Texts are sequences of words; a keyword occurs in a text when it is one *)
(* of its words.                                                           *)
(***************************************************************************)
ScoreOne == 10000

phishing_keywords ==
    << <<"verify", 3000>>, <<"suspended", 4000>>, <<"urgent", 3000>>,
       <<"account", 2000>>, <<"login", 2500>>, <<"update", 2000>>,
       <<"confirm", 2500>>, <<"secure", 2000>>, <<"immediately", 3000>>,
       <<"expire", 3000>>, <<"click here", 4000>>, <<"limited time", 3000>>,
       <<"act now", 3500>>, <<"paypal", 3000>>, <<"amazon", 3000>>,
       <<"apple", 3000>>, <<"microsoft", 3000>>, <<"google", 3000>>,
       <<"bank", 4000>>, <<"credit card", 4000>>, <<"ssn", 5000>>,
       <<"social security", 5000>> >>

Min(a, b) == IF a < b THEN a ELSE b
Max(a, b) == IF a > b THEN a ELSE b
Abs(a) == IF a < 0 THEN -a ELSE a

Occurs(word, text) == \E i \in 1..Len(text) : text[i] = word

RECURSIVE keyword_sum(_, _)
keyword_sum(table, text) ==
    IF table = <<>> THEN 0
    ELSE (IF Occurs(Head(table)[1], text) THEN Head(table)[2] ELSE 0)
         + keyword_sum(Tail(table), text)

\* min(1.0, score / 2.0)
analyze_text_content(text) ==
    IF text = <<>> THEN 0
    ELSE Min(ScoreOne, keyword_sum(phishing_keywords, text) \div 2)

extract_text_features(analysis_data) ==
    LET steps == Get(analysis_data, "steps", EmptyDict)
        screenshot_data == Get(steps, "screenshot_analysis", EmptyDict)
        content_data == Get(steps, "content_analysis", EmptyDict)
        text_content ==
            Get(screenshot_data, "page_title", <<>>)
            \o Get(screenshot_data, "meta_description", <<>>)
            \o Get(screenshot_data, "viewport_content", <<>>)
            \o Get(content_data, "title", <<>>)
            \o Get(content_data, "meta_description", <<>>)
    IN  IF text_content = <<>> THEN <<"no content">> ELSE text_content

UnknownAge == 365

\* the features the model holds the data of, by name; url is the string
\* analyze was called with, and any exception gives [0] * 15.  A
\* domain_age_days that is absent, None or 0 is falsy.
extract_url_features(url, analysis_data) ==
    IF ~RawParses(url)
    THEN [k \in {"url_length", "url_shortener", "contains_ip", "domain_age",
                 "redirect_count", "has_login_form"} |-> 0]
    ELSE LET steps == Get(analysis_data, "steps", EmptyDict)
             dns_data == Get(steps, "dns_whois", EmptyDict)
             http_data == Get(steps, "http_analysis", EmptyDict)
             content_data == Get(steps, "content_analysis", EmptyDict)
             domain_age_days == Get(dns_data, "domain_age_days", 0)
         IN  [url_length |-> RawLength(url),
              url_shortener |-> IF url.shortener THEN 1 ELSE 0,
              contains_ip |-> IF url.embeds_ipv4 THEN 1 ELSE 0,
              domain_age |-> IF domain_age_days # 0 THEN domain_age_days
                             ELSE UnknownAge,
              redirect_count |-> Len(Get(http_data, "redirect_chain", <<>>)),
              has_login_form |->
                  IF Get(content_data, "has_login_form", FALSE) THEN 1 ELSE 0]

LongUrl == 100
ManyRedirects == 2

\* variant: the thresholds are exclusive
fallback_classification_exclusive(url, analysis_data) ==
    LET steps == Get(analysis_data, "steps", EmptyDict)
        redirect_count ==
            Len(Get(Get(steps, "http_analysis", EmptyDict), "redirect_chain", <<>>))
        content_data == Get(steps, "content_analysis", EmptyDict)
        risk_score ==
            (IF RawLength(url) > LongUrl THEN 2000 ELSE 0)
            + (IF url.shortener THEN 3000 ELSE 0)
            + (IF url.embeds_ipv4 THEN 4000 ELSE 0)
            + (IF redirect_count > ManyRedirects THEN 3000 ELSE 0)
            + (IF Get(content_data, "has_login_form", FALSE) THEN 2000 ELSE 0)
    IN  [classification |-> IF risk_score > 6000 THEN "phishing"
                            ELSE IF risk_score > 3000 THEN "suspicious"
                            ELSE "legitimate",
         phishing_score |-> risk_score,
         confidence |-> IF risk_score > 6000 THEN 7500
                        ELSE IF risk_score > 3000 THEN 7000
                        ELSE 8000,
         url_score |-> risk_score,
         text_score |-> 0]

\* the rule-based classification; url is the string analyze was called with
fallback_classification(url, analysis_data) ==
    LET steps == Get(analysis_data, "steps", EmptyDict)
        redirect_count ==
            Len(Get(Get(steps, "http_analysis", EmptyDict), "redirect_chain", <<>>))
        content_data == Get(steps, "content_analysis", EmptyDict)
        risk_score ==
            (IF RawLength(url) > LongUrl THEN 2000 ELSE 0)
            + (IF url.shortener THEN 3000 ELSE 0)
            + (IF url.embeds_ipv4 THEN 4000 ELSE 0)
            + (IF redirect_count > ManyRedirects THEN 3000 ELSE 0)
            + (IF Get(content_data, "has_login_form", FALSE) THEN 2000 ELSE 0)
    IN  [classification |-> IF risk_score >= 6000 THEN "phishing"
                            ELSE IF risk_score >= 3000 THEN "suspicious"
                            ELSE "legitimate",
         phishing_score |-> risk_score,
         confidence |-> IF risk_score >= 6000 THEN 7500
                        ELSE IF risk_score >= 3000 THEN 7000
                        ELSE 8000,
         url_score |-> risk_score,
         text_score |-> 0]

\* variant: the two weights are exchanged
classify_weights_swapped(clf, url, analysis_data) ==
    IF ~clf.is_trained THEN fallback_classification(url, analysis_data)
    ELSE IF clf.predict_raises THEN fallback_classification(url, analysis_data)
    ELSE LET url_score == clf.url_score
             text_score == analyze_text_content(extract_text_features(analysis_data))
             combined_score == (url_score * 3 + text_score * 7) \div 10
         IN  [classification |-> IF combined_score >= 7000 THEN "phishing"
                                 ELSE IF combined_score >= 4000 THEN "suspicious"
                                 ELSE "legitimate",
              phishing_score |-> combined_score,
              confidence |-> IF combined_score >= 7000 THEN Min(9500, combined_score)
                             ELSE IF combined_score >= 4000 THEN Min(8500, combined_score)
                             ELSE Min(9000, ScoreOne - combined_score),
              url_score |-> url_score,
              text_score |-> text_score]

\* confidences are percentages times 100
classify(clf, url, analysis_data) ==
    IF ~clf.is_trained THEN fallback_classification(url, analysis_data)
    ELSE IF clf.predict_raises THEN fallback_classification(url, analysis_data)
    ELSE LET url_score == clf.url_score
             text_score == analyze_text_content(extract_text_features(analysis_data))
             combined_score == (url_score * 7 + text_score * 3) \div 10
         IN  [classification |-> IF combined_score >= 7000 THEN "phishing"
                                 ELSE IF combined_score >= 4000 THEN "suspicious"
                                 ELSE "legitimate",
              phishing_score |-> combined_score,
              confidence |-> IF combined_score >= 7000 THEN Min(9500, combined_score)
                             ELSE IF combined_score >= 4000 THEN Min(8500, combined_score)
                             ELSE Min(9000, ScoreOne - combined_score),
              url_score |-> url_score,
              text_score |-> text_score]

(***************************************************************************)
(* Step 9: Feature compilation and risk assessment                         *)
(*                                                                         *)
(* The accumulator acc is the pair of locals risk_score and evidence.      *)
(***************************************************************************)
RiskPoint == 1000
EvidenceCap == 6

\* sub in s
Contains(s, sub) ==
    \E i \in 1..(Len(s) - Len(sub) + 1) : SubSeq(s, i, i + Len(sub) - 1) = sub

\* f"{c:.0f}" of a percentage times 100: round to nearest, ties to even
Format0(c) ==
    LET q == c \div 100
        r == c % 100
    IN  IF r > 50 \/ (r = 50 /\ q % 2 = 1) THEN q + 1 ELSE q

RECURSIVE Join(_, _)
Join(words, sep) ==
    IF words = <<>> THEN ""
    ELSE IF Len(words) = 1 THEN words[1]
    ELSE words[1] \o sep \o Join(Tail(words), sep)

AddRisk(acc, points, text) ==
    [risk_score |-> acc.risk_score + points * RiskPoint,
     evidence |-> Append(acc.evidence, text)]

\* no classification: the handler of lines 320-322 ran
ClassifyFailed == [raised |-> "Exception"]

\* variant: the handler falls back to the rule-based classification
ml_classification_falls_back(clf, record) ==
    IF clf.call_raises
    THEN fallback_classification(record.url, record)
    ELSE classify(clf, record.url, record)

\* lines 310-311: MLClassifier() and classifier.classify(url, record); clf is
\* the classifier this call constructs, call_raises an exception that leaves
\* the constructor or classify
ml_classification(clf, record) ==
    IF clf.call_raises
    THEN ClassifyFailed
    ELSE classify(clf, record.url, record)

\* variant: the evidence list outlives the call (a list shared between calls)
classifier_rules_shared(acc, ml_result) ==
    LET kept == IF calls = <<>> THEN acc.evidence ELSE calls[Len(calls)].appended
        scored == [risk_score |-> acc.risk_score + Get(ml_result, "phishing_score", 0) * 6,
                   evidence |-> kept]
        shown == ToString(Format0(Get(ml_result, "confidence", 0)))
    IN  IF ml_result = ClassifyFailed THEN [acc EXCEPT !.evidence = kept]
        ELSE IF Get(ml_result, "classification", None) = "phishing"
        THEN [scored EXCEPT !.evidence = Append(@,
                 "ML classifier detected phishing patterns (confidence: " \o shown \o "%)")]
        ELSE IF Get(ml_result, "classification", None) = "suspicious"
        THEN [scored EXCEPT !.evidence = Append(@,
                 "ML classifier flagged as suspicious (confidence: " \o shown \o "%)")]
        ELSE scored

\* lines 312-318: ml_score = phishing_score * 100; risk_score += ml_score * 0.6;
\* lines 320-322: after an exception of line 310 or 311 nothing was added
classifier_rules(acc, ml_result) ==
    LET scored == [acc EXCEPT !.risk_score = @ + Get(ml_result, "phishing_score", 0) * 6]
        shown == ToString(Format0(Get(ml_result, "confidence", 0)))
    IN  IF ml_result = ClassifyFailed THEN acc
        ELSE IF Get(ml_result, "classification", None) = "phishing"
        THEN [scored EXCEPT !.evidence = Append(@,
                 "ML classifier detected phishing patterns (confidence: " \o shown \o "%)")]
        ELSE IF Get(ml_result, "classification", None) = "suspicious"
        THEN [scored EXCEPT !.evidence = Append(@,
                 "ML classifier flagged as suspicious (confidence: " \o shown \o "%)")]
        ELSE scored

\* variant: no rule for long URLs
url_structure_rules_no_length(acc, steps) ==
    LET url_analysis == Get(steps, "normalization", EmptyDict)
        a1 == IF Get(url_analysis, "is_ip", FALSE)
              THEN AddRisk(acc, 12, "URL uses IP address instead of domain name")
              ELSE acc
        a2 == IF Get(url_analysis, "has_punycode", FALSE)
              THEN AddRisk(a1, 8, "URL contains punycode (internationalized domain)")
              ELSE a1
    IN  a2

\* lines 328-339
url_structure_rules(acc, steps) ==
    LET url_analysis == Get(steps, "normalization", EmptyDict)
        a1 == IF Get(url_analysis, "is_ip", FALSE)
              THEN AddRisk(acc, 12, "URL uses IP address instead of domain name")
              ELSE acc
        a2 == IF Get(url_analysis, "has_punycode", FALSE)
              THEN AddRisk(a1, 8, "URL contains punycode (internationalized domain)")
              ELSE a1
        a3 == IF Get(url_analysis, "url_length", 0) > LongUrl
              THEN AddRisk(a2, 4, "Unusually long URL")
              ELSE a2
    IN  a3

\* variant: the redirect rule adds 6 points whatever the number of hops
redirect_rules_flat(acc, steps) ==
    LET http_analysis == Get(steps, "http_analysis", EmptyDict)
        redirect_count == Len(Get(http_analysis, "redirect_chain", <<>>))
    IN  IF redirect_count > ManyRedirects
        THEN AddRisk(acc, 6,
                     "Multiple redirects detected (" \o ToString(redirect_count)
                     \o " redirects)")
        ELSE acc

\* lines 342-346
redirect_rules(acc, steps) ==
    LET http_analysis == Get(steps, "http_analysis", EmptyDict)
        redirect_count == Len(Get(http_analysis, "redirect_chain", <<>>))
    IN  IF redirect_count > ManyRedirects
        THEN AddRisk(acc, 6 * redirect_count,
                     "Multiple redirects detected (" \o ToString(redirect_count)
                     \o " redirects)")
        ELSE acc

\* variant: a page without a login form lowers the score
content_rules_discount(acc, steps) ==
    LET content == Get(steps, "content_analysis", EmptyDict)
    IN  IF Get(content, "has_login_form", FALSE)
        THEN AddRisk(acc, 10, "Contains login form")
        ELSE [acc EXCEPT !.risk_score = @ - 5 * RiskPoint]

\* lines 349-352
content_rules(acc, steps) ==
    LET content == Get(steps, "content_analysis", EmptyDict)
    IN  IF Get(content, "has_login_form", FALSE)
        THEN AddRisk(acc, 10, "Contains login form")
        ELSE acc

\* lines 355-359
token_rules(acc, steps) ==
    LET token_analysis == Get(steps, "token_analysis", EmptyDict)
        keywords == Get(token_analysis, "suspicious_keywords", <<>>)
        suspicious_count == Len(keywords)
    IN  IF suspicious_count > 0
        THEN AddRisk(acc, 4 * suspicious_count,
                     "Contains suspicious keywords: " \o Join(keywords, ", "))
        ELSE acc

\* variant: the weights before they were reduced
indicator_weight_unreduced(indicator) ==
    IF Contains(indicator, "external domain") THEN 40
    ELSE IF Contains(indicator, "login form") THEN 30
    ELSE IF Contains(indicator, "external scripts") THEN 15
    ELSE 0

\* the weight of one indicator, lines 365-370
indicator_weight(indicator) ==
    IF Contains(indicator, "external domain") THEN 16
    ELSE IF Contains(indicator, "login form") THEN 12
    ELSE IF Contains(indicator, "external scripts") THEN 6
    ELSE 0

\* lines 362-371: every indicator is appended to the evidence
RECURSIVE screenshot_rules(_, _)
screenshot_rules(acc, phishing_indicators) ==
    IF phishing_indicators = <<>> THEN acc
    ELSE screenshot_rules(
             AddRisk(acc, indicator_weight(Head(phishing_indicators)),
                     Head(phishing_indicators)),
             Tail(phishing_indicators))

\* variant: exclusive thresholds
verdict_of_exclusive(risk_score) ==
    IF risk_score > 70 * RiskPoint THEN "dangerous"
    ELSE IF risk_score > 40 * RiskPoint THEN "suspicious"
    ELSE "safe"

\* lines 374-379
verdict_of(risk_score) ==
    IF risk_score >= 70 * RiskPoint THEN "dangerous"
    ELSE IF risk_score >= 40 * RiskPoint THEN "suspicious"
    ELSE "safe"

\* variant: no lower clamp
confidence_of_unclamped(risk_score) ==
    Min(95 * RiskPoint, 100 * RiskPoint - Abs(risk_score - 50 * RiskPoint))

\* line 381
confidence_of(risk_score) ==
    Min(95 * RiskPoint, Max(60 * RiskPoint, 100 * RiskPoint - Abs(risk_score - 50 * RiskPoint)))

\* variant: the last six entries, evidence[-6:]
last_evidence(evidence) ==
    SubSeq(evidence, Max(1, Len(evidence) - EvidenceCap + 1), Len(evidence))

\* line 387: evidence[:6]
top_evidence(evidence) == Take(evidence, EvidenceCap)

\* the locals risk_score and evidence at line 305 and after each group of
\* rules, and after each indicator of the loop of lines 364-371
risk_accumulation_steps(record, ml_result) ==
    LET steps == Get(record, "steps", EmptyDict)
        phishing_indicators ==
            Get(Get(steps, "screenshot_analysis", EmptyDict), "phishing_indicators", <<>>)
        a0 == [risk_score |-> 0, evidence |-> <<>>]
        a1 == classifier_rules(a0, ml_result)
        a2 == url_structure_rules(a1, steps)
        a3 == redirect_rules(a2, steps)
        a4 == content_rules(a3, steps)
        a5 == token_rules(a4, steps)
    IN  <<a0, a1, a2, a3, a4, a5>>
        \o [k \in 1..Len(phishing_indicators) |->
               screenshot_rules(a5, SubSeq(phishing_indicators, 1, k))]

\* all evidence before the cut of line 387, with the risk score
risk_accumulation(record, ml_result) ==
    LET steps == Get(record, "steps", EmptyDict)
        a0 == [risk_score |-> 0, evidence |-> <<>>]
        a1 == classifier_rules(a0, ml_result)
        a2 == url_structure_rules(a1, steps)
        a3 == redirect_rules(a2, steps)
        a4 == content_rules(a3, steps)
        a5 == token_rules(a4, steps)
        a6 == screenshot_rules(a5,
                  Get(Get(steps, "screenshot_analysis", EmptyDict),
                      "phishing_indicators", <<>>))
    IN  a6

\* clf is the MLClassifier() constructed by this call
compile_risk_assessment(record, clf) ==
    LET ml_result == ml_classification(clf, record)
        acc == risk_accumulation(record, ml_result)
    IN  [verdict |-> verdict_of(acc.risk_score),
         confidence |-> confidence_of(acc.risk_score),
         risk_score |-> acc.risk_score,
         evidence |-> top_evidence(acc.evidence)]

(***************************************************************************)
(* The environment of one pipeline run: pages, servers, browsers,          *)
(* classifier constructions                                                *)
(***************************************************************************)
HtmlPlain ==
    [len |-> 120, title |-> <<"welcome">>, forms |-> <<>>, parsable |-> TRUE]

HtmlLogin ==
    [len |-> 300, title |-> <<"verify", "account">>,
     forms |-> << [action |-> "/session", method |-> "post",
                   inputs |-> << [type |-> "text", name |-> "Email"],
                                 [type |-> "password", name |-> "pw"] >>] >>,
     parsable |-> TRUE]

HtmlBroken ==
    [len |-> 40, title |-> <<>>, forms |-> <<>>, parsable |-> FALSE]

Response(status, location, body) ==
    [status |-> status, location |-> location, body |-> body]

\* n redirects to successive paths of one host, then the terminal answer
Redirects(n, status, terminal) ==
    [i \in 1..(n + 1) |->
        IF i <= n THEN Response(status, <<"", "/hop">>, NoHtml) ELSE terminal]

PipelineServers ==
    { <<Response(200, NoLocation, HtmlPlain)>>,
      <<Response(200, NoLocation, HtmlLogin)>>,
      <<Response(200, NoLocation, HtmlBroken)>>,
      <<Response(404, NoLocation, HtmlLogin)>>,
      <<NetworkError>>,
      Redirects(3, 302, Response(200, NoLocation, HtmlLogin)),
      Redirects(2, 301, NetworkError) }

BrowserLaunchFails ==
    [kind |-> "launch_fails", forms |-> <<>>, external_scripts |-> 0, title |-> <<>>]

\* the phishing page below, with a call after page.goto that times out
BrowserPageError ==
    [kind |-> "page_error",
     forms |-> << [action |-> <<"https://", "collector.test/post">>,
                   inputs |-> << [type |-> "email", name |-> "email"],
                                 [type |-> "password", name |-> "password"] >>] >>,
     external_scripts |-> 6,
     title |-> <<"verify", "bank">>]

BrowserPlain ==
    [kind |-> "rendered", forms |-> <<>>, external_scripts |-> 2, title |-> <<"welcome">>]

BrowserPhish ==
    [kind |-> "rendered",
     forms |-> << [action |-> <<"https://", "collector.test/post">>,
                   inputs |-> << [type |-> "email", name |-> "email"],
                                 [type |-> "password", name |-> "password"] >>] >>,
     external_scripts |-> 6,
     title |-> <<"verify", "bank">>]

PipelineBrowsers == {BrowserLaunchFails, BrowserPageError, BrowserPlain, BrowserPhish}

\* predict_proba outputs the model draws from
UrlScores == {0, 6500, 9500}

Classifiers ==
    {[is_trained |-> FALSE, predict_raises |-> FALSE, url_score |-> 0, call_raises |-> FALSE],
     [is_trained |-> TRUE, predict_raises |-> TRUE, url_score |-> 0, call_raises |-> FALSE],
     [is_trained |-> TRUE, predict_raises |-> FALSE, url_score |-> 0, call_raises |-> TRUE]}
    \cup {[is_trained |-> TRUE, predict_raises |-> FALSE, url_score |-> p,
            call_raises |-> FALSE] : p \in UrlScores}

\* the constructions one pipeline run draws from: no model, a call that
\* raises, and the model with its highest output
PipelineClassifiers ==
    {clf \in Classifiers : ~clf.is_trained \/ clf.call_raises \/ clf.url_score = 9500}

(***************************************************************************)
(* Control flow of analyze, and the job store                              *)
(***************************************************************************)
\* variant: the TLS probe ahead of the DNS/WHOIS lookup
StageOrderTlsFirst ==
    <<"normalization", "tls_cert", "dns_whois", "http_analysis", "token_analysis",
      "reputation", "content_analysis", "screenshot_analysis">>

StageOrder ==
    <<"normalization", "dns_whois", "tls_cert", "http_analysis", "token_analysis",
      "reputation", "content_analysis", "screenshot_analysis">>

Stages == {StageOrder[i] : i \in 1..Len(StageOrder)}

IndexOf(stage) == CHOOSE i \in 1..Len(StageOrder) : StageOrder[i] = stage

\* the statement that follows a stage in the body of analyze
AfterStage(stage) ==
    IF IndexOf(stage) < Len(StageOrder) THEN StageOrder[IndexOf(stage) + 1]
    ELSE "compile"

NoJob ==
    [status |-> "absent", verdict |-> None, confidence |-> 0, evidence |-> <<>>,
     analysis_data |-> EmptyDict, error_message |-> None, completed_at |-> None]

\* AnalysisJob(id, url, user_id, status="queued")
QueuedJob == [NoJob EXCEPT !.status = "queued"]

WriteOutcomes == {"committed", "db_error"}

(***************************************************************************)
(* POST /analyze/url                                                       *)
(***************************************************************************)
\* variant: the background task is added before the commit of the record
analyze_url_task_first ==
    /\ pc = "submit"
    /\ \E w \in WriteOutcomes :
          IF w = "committed"
          THEN /\ job' = QueuedJob
               /\ store_log' = Append(store_log, "queued")
          ELSE UNCHANGED store_vars
    /\ pc' = "task_start"
    /\ UNCHANGED <<job_url, analyze_vars, error, probe_vars>>

\* lines 39-55: the commit of the queued record, then add_task
analyze_url ==
    /\ pc = "submit"
    /\ \E w \in WriteOutcomes :
          IF w = "committed"
          THEN /\ job' = QueuedJob
               /\ store_log' = Append(store_log, "queued")
               /\ pc' = "task_start"
          ELSE /\ pc' = "rejected"
               /\ UNCHANGED store_vars
    /\ UNCHANGED <<job_url, analyze_vars, error, probe_vars>>

(***************************************************************************)
(* The job runner: api.analyze_url_task and worker._analyze_url_async      *)
(***************************************************************************)
\* update(AnalysisJob).where(id == job_id).values(status="processing"); commit
task_start ==
    /\ pc = "task_start"
    /\ \E w \in WriteOutcomes :
          IF w = "committed"
          THEN /\ job' = [job EXCEPT !.status = "processing"]
               /\ store_log' = Append(store_log, "processing")
               /\ pc' = "session"
               /\ UNCHANGED error
          ELSE /\ pc' = "handler"
               /\ error' = "db_error"
               /\ UNCHANGED store_vars
    /\ UNCHANGED <<job_url, analyze_vars, probe_vars>>

\* lines 47-65 of worker.py: the update with the results, and its commit
write_completed ==
    /\ pc = "write_completed"
    /\ \E w \in WriteOutcomes :
          IF w = "committed"
          THEN LET risk_assessment == Get(analysis_result, "risk_assessment", EmptyDict)
               IN  /\ job' = [job EXCEPT
                                !.status = "completed",
                                !.verdict = Get(risk_assessment, "verdict", None),
                                !.confidence = Get(risk_assessment, "confidence", 0),
                                !.evidence = Get(risk_assessment, "evidence", <<>>),
                                !.analysis_data = analysis_result,
                                !.completed_at = "utcnow"]
                   /\ store_log' = Append(store_log, "completed")
                   /\ pc' = "done"
                   /\ UNCHANGED error
          ELSE /\ pc' = "handler"
               /\ error' = "db_error"
               /\ UNCHANGED store_vars
    /\ UNCHANGED <<job_url, analyze_vars, probe_vars>>

\* variant: the except block only logs
handler_log_only ==
    /\ pc = "handler"
    /\ pc' = "done"
    /\ UNCHANGED <<job_url, analyze_vars, error, store_vars, probe_vars>>

\* the except block of the runner: the update to failed, and its commit;
\* an exception of this write leaves the task
handler ==
    /\ pc = "handler"
    /\ \E w \in WriteOutcomes :
          IF w = "committed"
          THEN /\ job' = [job EXCEPT !.status = "failed",
                                     !.error_message = error,
                                     !.completed_at = "utcnow"]
               /\ store_log' = Append(store_log, "failed")
               /\ pc' = "done"
          ELSE /\ pc' = "crashed"
               /\ UNCHANGED store_vars
    /\ UNCHANGED <<job_url, analyze_vars, error, probe_vars>>

(***************************************************************************)
(* URLAnalyzer.analyze                                                     *)
(***************************************************************************)
\* a stage returned: analysis_result["steps"][stage] = result
Leave(stage, result) ==
    /\ analysis_result' = [analysis_result EXCEPT !.steps = Put(@, stage, result)]
    /\ written' = Append(written, stage)
    /\ pc' = AfterStage(stage)
    /\ UNCHANGED <<pending, error>>

\* an exception leaves the try body: except logs and re-raises, finally runs
Escape(text) ==
    /\ pending' = "raise"
    /\ error' = text
    /\ pc' = "finally"
    /\ UNCHANGED <<analysis_result, written>>

SessionOutcomes == {"created", "constructor_raises"}

\* lines 29-37
create_session ==
    /\ pc = "session"
    /\ \E o \in SessionOutcomes :
          IF o = "created"
          THEN /\ session' = "open"
               /\ analysis_result' = [job_id |-> "job", url |-> job_url, steps |-> EmptyDict]
               /\ pc' = StageOrder[1]
               /\ UNCHANGED <<pending, error>>
          ELSE /\ pending' = "raise"
               /\ error' = "cannot create ClientSession"
               /\ pc' = "finally"
               /\ UNCHANGED <<session, analysis_result>>
    /\ UNCHANGED <<job_url, ran, written, exit, store_vars, probe_vars>>

step_normalization ==
    /\ pc = "normalization"
    /\ ran' = Append(ran, "normalization")
    /\ IF normalize_raises(job_url)
       THEN Escape("Invalid IPv6 URL")
       ELSE Leave("normalization", normalize_and_check_url(job_url))
    /\ UNCHANGED <<job_url, session, exit, store_vars, probe_vars>>

step_dns_whois ==
    /\ pc = "dns_whois"
    /\ ran' = Append(ran, "dns_whois")
    /\ IF dns_whois_raises(NormalizedUrl(job_url))
       THEN Escape("Invalid IPv6 URL")
       ELSE \E dns \in DnsOutcomes, who \in WhoisOutcomes :
               Leave("dns_whois", dns_and_whois_lookup(NormalizedUrl(job_url), dns, who))
    /\ UNCHANGED <<job_url, session, exit, store_vars, probe_vars>>

step_tls_cert ==
    /\ pc = "tls_cert"
    /\ ran' = Append(ran, "tls_cert")
    /\ IF tls_cert_raises(NormalizedUrl(job_url))
       THEN Escape("Port out of range 0-65535")
       ELSE \E tls \in TlsOutcomes :
               Leave("tls_cert", tls_cert_analysis(NormalizedUrl(job_url), tls))
    /\ UNCHANGED <<job_url, session, exit, store_vars, probe_vars>>

step_http_analysis ==
    /\ pc = "http_analysis"
    /\ ran' = Append(ran, "http_analysis")
    /\ \E srv \in PipelineServers :
          Leave("http_analysis",
                http_fetch_and_redirects(WireUrl(NormalizedUrl(job_url)), srv))
    /\ UNCHANGED <<job_url, session, exit, store_vars, probe_vars>>

step_token_analysis ==
    /\ pc = "token_analysis"
    /\ ran' = Append(ran, "token_analysis")
    /\ IF token_analysis_raises(NormalizedUrl(job_url))
       THEN Escape("Invalid IPv6 URL")
       ELSE Leave("token_analysis", url_token_analysis(NormalizedUrl(job_url)))
    /\ UNCHANGED <<job_url, session, exit, store_vars, probe_vars>>

step_reputation ==
    /\ pc = "reputation"
    /\ ran' = Append(ran, "reputation")
    /\ Leave("reputation", reputation_checks(NormalizedUrl(job_url)))
    /\ UNCHANGED <<job_url, session, exit, store_vars, probe_vars>>

\* line 64: the html_content of the http result, "" when the key is absent
step_content_analysis ==
    /\ pc = "content_analysis"
    /\ ran' = Append(ran, "content_analysis")
    /\ Leave("content_analysis",
             content_analysis(Get(analysis_result.steps["http_analysis"],
                                  "html_content", NoHtml)))
    /\ UNCHANGED <<job_url, session, exit, store_vars, probe_vars>>

step_screenshot_analysis ==
    /\ pc = "screenshot_analysis"
    /\ ran' = Append(ran, "screenshot_analysis")
    /\ \E browser \in PipelineBrowsers :
          Leave("screenshot_analysis",
                dynamic_screenshot_analysis(NormalizedUrl(job_url), browser))
    /\ UNCHANGED <<job_url, session, exit, store_vars, probe_vars>>

\* what one call of _compile_risk_assessment on a record did: its
\* classifier, the classification, the evidence before the cut, the
\* successive values of risk_score and the returned assessment
call_record(record, clf) ==
    LET ml_result == ml_classification(clf, record)
        all == risk_accumulation_steps(record, ml_result)
    IN  [clf |-> clf,
         ml_result |-> ml_result,
         appended |-> risk_accumulation(record, ml_result).evidence,
         partial |-> [k \in 1..Len(all) |-> all[k].risk_score],
         assessment |-> compile_risk_assessment(record, clf)]

\* lines 72-73
step_compile ==
    /\ pc = "compile"
    /\ ran' = Append(ran, "compile")
    /\ \E clf \in PipelineClassifiers :
          analysis_result' =
              Put(analysis_result, "risk_assessment",
                  compile_risk_assessment(analysis_result, clf))
    /\ written' = Append(written, "risk_assessment")
    /\ pc' = "summary"
    /\ UNCHANGED <<job_url, session, pending, exit, error, store_vars, probe_vars>>

SummaryOutcomes == {"generated", "fallback", "constructor_raises"}

\* LLMSummarizer._generate_fallback_summary
generate_fallback_summary(result) ==
    LET verdict == Get(Get(result, "risk_assessment", EmptyDict), "verdict", "unknown")
    IN  "Bedömning: "
        \o (CASE verdict = "safe" -> "Säker"
              [] verdict = "suspicious" -> "Misstänkt"
              [] verdict = "dangerous" -> "Farlig"
              [] OTHER -> "Okänd")

\* lines 76-81: the summarizer is constructed outside its own try block
step_summary ==
    /\ pc = "summary"
    /\ ran' = Append(ran, "summary")
    /\ \E o \in SummaryOutcomes :
          IF o = "constructor_raises"
          THEN Escape("cannot construct LLMSummarizer")
          ELSE /\ analysis_result' =
                      Put(analysis_result, "swedish_summary",
                          IF o = "generated" THEN "Bedömning (LLM)"
                          ELSE generate_fallback_summary(analysis_result))
               /\ written' = Append(written, "swedish_summary")
               /\ pending' = "return"
               /\ pc' = "finally"
               /\ UNCHANGED error
    /\ UNCHANGED <<job_url, session, exit, store_vars, probe_vars>>

\* variant: the session is closed after the return statement only
session_closed_on_return(s, how) ==
    IF s = "open" /\ how = "return" THEN "closed" ELSE s

\* lines 86-88: if self.session: await self.session.close()
session_after_finally(s, how) == IF s = "open" THEN "closed" ELSE s

\* variant: the except block of analyze logs and returns what it has
analyze_finally_swallows ==
    /\ pc = "finally"
    /\ session' = session_after_finally(session, pending)
    /\ exit' = "returned"
    /\ pc' = "write_completed"
    /\ UNCHANGED <<job_url, analysis_result, ran, written, pending, error,
                   store_vars, probe_vars>>

\* the finally block, then the return or the re-raise into the runner
analyze_finally ==
    /\ pc = "finally"
    /\ session' = session_after_finally(session, pending)
    /\ exit' = IF pending = "return" THEN "returned" ELSE "raised"
    /\ pc' = IF pending = "return" THEN "write_completed" ELSE "handler"
    /\ UNCHANGED <<job_url, analysis_result, ran, written, pending, error,
                   store_vars, probe_vars>>

(***************************************************************************)
(* The pipeline of one job                                                 *)
(***************************************************************************)
Init ==
    /\ job_url \in PipelineUrls
    /\ pc = "submit"
    /\ session = "none"
    /\ analysis_result = EmptyDict
    /\ ran = <<>>
    /\ written = <<>>
    /\ pending = "none"
    /\ exit = "none"
    /\ error = None
    /\ job = NoJob
    /\ store_log = <<>>
    /\ origin = <<>>
    /\ trace_result = EmptyDict
    /\ calls = <<>>
    /\ loop = <<>>
    /\ tasks = <<>>
    /\ runners = <<>>

Next ==
    \/ analyze_url
    \/ task_start
    \/ create_session
    \/ step_normalization
    \/ step_dns_whois
    \/ step_tls_cert
    \/ step_http_analysis
    \/ step_token_analysis
    \/ step_reputation
    \/ step_content_analysis
    \/ step_screenshot_analysis
    \/ step_compile
    \/ step_summary
    \/ analyze_finally
    \/ write_completed
    \/ handler

Spec == Init /\ [][Next]_vars

\* the runner and the event loop keep running a task that can take a step
FairSpec == Spec /\ WF_vars(Next)

(***************************************************************************)
(* Redirect tracing against a server: _http_fetch_and_redirects alone      *)
(***************************************************************************)
StartUrl == <<"start.test", "/">>

RedirectAnswers ==
    {Response(301, <<"", "/next">>, NoHtml),
     Response(302, <<"other.test", "/landing">>, NoHtml),
     Response(308, <<"", "/landing">>, NoHtml)}

TerminalAnswers ==
    {Response(200, NoLocation, HtmlPlain),
     Response(200, NoLocation, UnreadableBody),
     Response(404, NoLocation, NoHtml),
     Response(302, NoLocation, NoHtml),
     NetworkError}

\* n redirects with a Location header, then a terminal answer
TracedServers ==
    UNION {{[i \in 1..(n + 1) |-> IF i <= n THEN hops[i] ELSE last] :
               hops \in [1..n -> RedirectAnswers], last \in TerminalAnswers} :
           n \in 0..MaxRedirects}

InitHttp ==
    /\ origin \in TracedServers
    /\ pc = "http_get"
    /\ trace_result = EmptyDict
    /\ job_url = UrlPlain
    /\ session = "open"
    /\ analysis_result = EmptyDict
    /\ ran = <<>>
    /\ written = <<>>
    /\ pending = "none"
    /\ exit = "none"
    /\ error = None
    /\ job = NoJob
    /\ store_log = <<>>
    /\ calls = <<>>
    /\ loop = <<>>
    /\ tasks = <<>>
    /\ runners = <<>>

trace_redirects ==
    /\ pc = "http_get"
    /\ trace_result' = http_fetch_and_redirects(StartUrl, origin)
    /\ pc' = "http_done"
    /\ UNCHANGED <<job_url, analyze_vars, error, store_vars, origin, calls, side_vars>>

NextHttp == trace_redirects

SpecHttp == InitHttp /\ [][NextHttp]_vars

(***************************************************************************)
(* Redirect tracing followed GET by GET: the loop of                       *)
(* _http_fetch_and_redirects with its locals in loop, against servers that *)
(* end their redirects and servers that never do.  A server is             *)
(* [answers, endless]; an endless server repeats its answers.              *)
(***************************************************************************)
EndlessServers ==
    {[answers |-> a, endless |-> TRUE] :
        a \in UNION {[1..n -> RedirectAnswers] : n \in 1..2}}

LoopServers ==
    {[answers |-> a, endless |-> FALSE] : a \in TracedServers} \cup EndlessServers

\* the answer of the server to its request number k
AnswerTo(server, k) ==
    server.answers[IF server.endless THEN ((k - 1) % Len(server.answers)) + 1 ELSE k]

NoResponse == Response(0, NoLocation, NoHtml)

\* variant: the loop follows redirects as long as the server sends them
loop_continues_uncapped(response, redirect_count) ==
    /\ response.status \in RedirectCodes
    /\ response.location # NoLocation

\* line 182 and lines 183-185: the loop goes on to record a hop
loop_continues(response, redirect_count) ==
    /\ response.status \in RedirectCodes
    /\ redirect_count < MaxHops
    /\ response.location # NoLocation

InitLoop ==
    /\ origin \in LoopServers
    /\ pc = "http_get"
    /\ trace_result = EmptyDict
    /\ loop = [current_url |-> StartUrl, redirect_count |-> 0, requests |-> 0,
               response |-> NoResponse]
    /\ job_url = UrlPlain
    /\ session = "open"
    /\ analysis_result = EmptyDict
    /\ ran = <<>>
    /\ written = <<>>
    /\ pending = "none"
    /\ exit = "none"
    /\ error = None
    /\ job = NoJob
    /\ store_log = <<>>
    /\ calls = <<>>
    /\ tasks = <<>>
    /\ runners = <<>>

\* lines 169-180: the result is set up and the first GET is issued
loop_first_get ==
    /\ pc = "http_get"
    /\ LET answer == AnswerTo(origin, 1)
       IN  IF IsError(answer)
           THEN /\ trace_result' = Put(http_data_initial(StartUrl), "http_error", answer.error)
                /\ loop' = [loop EXCEPT !.requests = 1]
                /\ pc' = "http_done"
           ELSE /\ trace_result' = http_data_initial(StartUrl)
                /\ loop' = [loop EXCEPT !.requests = 1, !.response = answer]
                /\ pc' = "http_loop"
    /\ UNCHANGED <<job_url, analyze_vars, error, store_vars, origin, calls, tasks, runners>>

\* lines 183-196: one turn of the loop, a hop and its re-fetch
loop_follow ==
    /\ pc = "http_loop"
    /\ loop_continues(loop.response, loop.redirect_count)
    /\ LET hop == [url |-> loop.current_url, status |-> loop.response.status,
                   location |-> loop.response.location]
           recorded == [trace_result EXCEPT !.redirect_chain = Append(@, hop)]
           answer == AnswerTo(origin, loop.requests + 1)
       IN  IF IsError(answer)
           THEN /\ trace_result' = Put(recorded, "http_error", answer.error)
                /\ loop' = [loop EXCEPT
                              !.current_url = urljoin(@, loop.response.location),
                              !.redirect_count = @ + 1,
                              !.requests = @ + 1]
                /\ pc' = "http_done"
           ELSE /\ trace_result' = recorded
                /\ loop' = [loop EXCEPT
                              !.current_url = urljoin(@, loop.response.location),
                              !.redirect_count = @ + 1,
                              !.requests = @ + 1,
                              !.response = answer]
                /\ pc' = "http_loop"
    /\ UNCHANGED <<job_url, analyze_vars, error, store_vars, origin, calls, tasks, runners>>

\* lines 198-204, after the loop ended or broke
loop_leave ==
    /\ pc = "http_loop"
    /\ ~loop_continues(loop.response, loop.redirect_count)
    /\ LET final == [trace_result EXCEPT !.final_url = loop.current_url,
                                         !.status_code = loop.response.status,
                                         !.headers = HeadersOf(loop.response)]
       IN  trace_result' =
               IF loop.response.status = 200
               THEN IF loop.response.body = UnreadableBody
                    THEN Put(final, "http_error", "UnicodeDecodeError")
                    ELSE [final EXCEPT !.html_content = loop.response.body]
               ELSE final
    /\ pc' = "http_done"
    /\ UNCHANGED <<job_url, analyze_vars, error, store_vars, origin, calls, loop,
                   tasks, runners>>

NextLoop ==
    \/ loop_first_get
    \/ loop_follow
    \/ loop_leave

SpecLoop == InitLoop /\ [][NextLoop]_vars

\* the event loop resumes the coroutine whenever its GET has answered
FairSpecLoop == SpecLoop /\ WF_vars(NextLoop)

(***************************************************************************)
(* Risk compilation on a finished analysis record:                         *)
(* _compile_risk_assessment alone, called repeatedly on one record         *)
(***************************************************************************)
\* URLs by the features the compiler and the classifier read; no host is
\* both an IPv4 literal and a punycode name, and the URLs of a shortener are
\* the ones with an IPv4 pattern in them, but for two URLs with the pattern
\* in their path
RiskUrls ==
    {u \in [name : {"url"}, scheme : {"http"}, parse_ok : {TRUE}, port_ok : {TRUE},
            host : {"host.test"}, is_ip : BOOLEAN, has_punycode : BOOLEAN,
            length : {24, 101},
            keywords : {Take(suspicious_keywords, k) : k \in 0..MaxKeywords},
            shortener : BOOLEAN, embeds_ipv4 : BOOLEAN] :
        ~(u.is_ip /\ u.has_punycode) /\ u.shortener = u.embeds_ipv4}
    \cup {UrlPathIpv4, UrlPadded}

RiskServers ==
    {Redirects(n, 302, Response(200, NoLocation, html)) :
        n \in {0, 3, MaxHops}, html \in {HtmlPlain, HtmlLogin}}

\* the record analyze hands to the compiler after its eight stages
RecordOf(u, srv, browser) ==
    LET n == NormalizedUrl(u)
        http == http_fetch_and_redirects(WireUrl(n), srv)
    IN  [job_id |-> "job", url |-> u,
         steps |->
            [normalization |-> normalize_and_check_url(u),
             dns_whois |-> dns_and_whois_lookup(n, "resolved", "found"),
             tls_cert |-> tls_cert_analysis(n, "handshake_ok"),
             http_analysis |-> http,
             token_analysis |-> url_token_analysis(n),
             reputation |-> reputation_checks(n),
             content_analysis |-> content_analysis(Get(http, "html_content", NoHtml)),
             screenshot_analysis |-> dynamic_screenshot_analysis(n, browser)]]

\* a browser that cannot start, and the two rendered pages
RiskBrowsers == {BrowserLaunchFails, BrowserPlain, BrowserPhish}

RiskRecords ==
    {RecordOf(u, srv, browser) :
        u \in RiskUrls, srv \in RiskServers, browser \in RiskBrowsers}

InitRisk ==
    /\ analysis_result \in RiskRecords
    /\ calls = <<>>
    /\ loop = <<>>
    /\ tasks = <<>>
    /\ runners = <<>>
    /\ pc = "compile"
    /\ job_url = UrlPlain
    /\ session = "open"
    /\ ran = <<>>
    /\ written = <<>>
    /\ pending = "none"
    /\ exit = "none"
    /\ error = None
    /\ job = NoJob
    /\ store_log = <<>>
    /\ origin = <<>>
    /\ trace_result = EmptyDict

\* one more call on the record
compile_call ==
    /\ pc = "compile"
    /\ Len(calls) < MaxCalls
    /\ \E clf \in Classifiers :
          calls' = Append(calls, call_record(analysis_result, clf))
    /\ UNCHANGED <<job_url, pc, analyze_vars, error, store_vars, origin, trace_result,
                   side_vars>>

NextRisk == compile_call

SpecRisk == InitRisk /\ [][NextRisk]_vars

(***************************************************************************)
(* Classification of a finished analysis record: MLClassifier.classify     *)
(* alone, one call on one record                                           *)
(***************************************************************************)
\* page titles by the keyword weights they sum to: none, 1.0, 1.8, 2.2
ClassifyTitles ==
    { <<"welcome">>,
      <<"verify", "suspended", "urgent">>,
      <<"ssn", "social security", "bank", "credit card">>,
      <<"ssn", "social security", "bank", "credit card", "click here">> }

ClassifyPages ==
    {[len |-> 200, title |-> t, forms |-> f, parsable |-> TRUE] :
        t \in ClassifyTitles, f \in {<<>>, HtmlLogin.forms}}

\* with one URL without a scheme that passes 100 characters only once
\* normalized
ClassifyUrls ==
    [name : {"url"}, scheme : {"http"}, parse_ok : {TRUE}, port_ok : {TRUE},
     host : {"host.test"}, is_ip : {FALSE}, has_punycode : {FALSE},
     length : {24, 101}, keywords : {<<>>},
     shortener : BOOLEAN, embeds_ipv4 : BOOLEAN]
    \cup {UrlLongPuny, UrlPadded}

ClassifyRecords ==
    {RecordOf(u, Redirects(n, 302, Response(200, NoLocation, page)), BrowserLaunchFails) :
        u \in ClassifyUrls, n \in {0, 2, 3}, page \in ClassifyPages}

\* predict_proba outputs in steps of 0.05
ClassifierGrid ==
    {[is_trained |-> FALSE, predict_raises |-> FALSE, url_score |-> 0],
     [is_trained |-> TRUE, predict_raises |-> TRUE, url_score |-> 0]}
    \cup {[is_trained |-> TRUE, predict_raises |-> FALSE, url_score |-> k * 500] :
              k \in 0..20}

InitClassify ==
    /\ analysis_result \in ClassifyRecords
    /\ calls = <<>>
    /\ loop = <<>>
    /\ tasks = <<>>
    /\ runners = <<>>
    /\ pc = "classify"
    /\ job_url = UrlPlain
    /\ session = "open"
    /\ ran = <<>>
    /\ written = <<>>
    /\ pending = "none"
    /\ exit = "none"
    /\ error = None
    /\ job = NoJob
    /\ store_log = <<>>
    /\ origin = <<>>
    /\ trace_result = EmptyDict

\* classifier.classify(analysis_result["url"], analysis_result)
classify_call ==
    /\ pc = "classify"
    /\ \E clf \in ClassifierGrid :
          calls' = <<[clf |-> clf,
                      ml_result |-> classify(clf, analysis_result.url, analysis_result)]>>
    /\ pc' = "classified"
    /\ UNCHANGED <<job_url, analyze_vars, error, store_vars, origin, trace_result,
                   side_vars>>

NextClassify == classify_call

SpecClassify == InitClassify /\ [][NextClassify]_vars

(***************************************************************************)
(* Two jobs analysed concurrently: two background tasks of one process,    *)
(* interleaved at their stages.  Objects are kept by identity: the         *)
(* URLAnalyzer objects, the ClientSession objects and the analysis_result  *)
(* dicts are numbered in the order of their construction, and a task       *)
(* holds the numbers of the objects its locals refer to (0 for None).      *)
(*   pos        the position of each task                                  *)
(*   url        the URL of the job of each task                            *)
(*   analyzer   the local analyzer of the runner                           *)
(*   result     the local analysis_result of analyze                       *)
(*   raised     the exception that left the try body of analyze            *)
(*   opened     the session each task constructed                          *)
(*   classifier the MLClassifier the risk compilation of each task         *)
(*              constructed, fitted on the np.random state of the process  *)
(*   analyzers, sessions, dicts   the objects                              *)
(*   rows       the AnalysisJob rows, by job                               *)
(* Every job-store write is committed and every lookup succeeds.           *)
(***************************************************************************)
Tasks == {1, 2}

PairUrls == {UrlPlain, UrlIpLogin, UrlBadPort}

PairServer == Redirects(3, 302, Response(200, NoLocation, HtmlLogin))

others_than_tasks ==
    <<job_url, pc, analyze_vars, error, store_vars, origin, trace_result, calls,
      loop, runners>>

\* variant: one analyzer object of the module serves every task
analyzer_of_module(objects) == 1

\* analyzer = URLAnalyzer(): the number of the object the runner uses, a new
\* object for every task
analyzer_of_task(objects) == Len(objects) + 1

\* the stage raises before or outside its try block
stage_raises(stage, url) ==
    LET n == NormalizedUrl(url) IN
    CASE stage = "normalization" -> normalize_raises(url)
      [] stage = "dns_whois" -> dns_whois_raises(n)
      [] stage = "tls_cert" -> tls_cert_raises(n)
      [] stage = "token_analysis" -> token_analysis_raises(n)
      [] OTHER -> FALSE

\* what a stage returns for the record built so far; the session is the one
\* self.session refers to when the stage runs
stage_result(stage, url, record, the_session) ==
    LET n == NormalizedUrl(url) IN
    CASE stage = "normalization" -> normalize_and_check_url(url)
      [] stage = "dns_whois" -> dns_and_whois_lookup(n, "resolved", "found")
      [] stage = "tls_cert" -> tls_cert_analysis(n, "handshake_ok")
      [] stage = "http_analysis" ->
             IF the_session.closed
             THEN Put(http_data_initial(WireUrl(n)), "http_error", "Session is closed")
             ELSE http_fetch_and_redirects(WireUrl(n), PairServer)
      [] stage = "token_analysis" -> url_token_analysis(n)
      [] stage = "reputation" -> reputation_checks(n)
      [] stage = "content_analysis" ->
             content_analysis(Get(record.steps["http_analysis"], "html_content", NoHtml))
      [] stage = "screenshot_analysis" -> dynamic_screenshot_analysis(n, BrowserPhish)

InitPair ==
    /\ \E urls \in [Tasks -> PairUrls] :
          tasks = [pos |-> [t \in Tasks |-> "task_start"],
                   url |-> urls,
                   analyzer |-> [t \in Tasks |-> 0],
                   result |-> [t \in Tasks |-> 0],
                   raised |-> [t \in Tasks |-> None],
                   opened |-> [t \in Tasks |-> 0],
                   classifier |-> [t \in Tasks |-> None],
                   analyzers |-> <<>>,
                   sessions |-> <<>>,
                   dicts |-> <<>>,
                   rows |-> [t \in Tasks |-> QueuedJob]]
    /\ pc = "tasks"
    /\ job_url = UrlPlain
    /\ session = "none"
    /\ analysis_result = EmptyDict
    /\ ran = <<>>
    /\ written = <<>>
    /\ pending = "none"
    /\ exit = "none"
    /\ error = None
    /\ job = NoJob
    /\ store_log = <<>>
    /\ origin = <<>>
    /\ trace_result = EmptyDict
    /\ calls = <<>>
    /\ loop = <<>>
    /\ runners = <<>>

\* the runner up to the call of analyze: status processing, URLAnalyzer()
pair_task_start(t) ==
    /\ tasks.pos[t] = "task_start"
    /\ LET a == analyzer_of_task(tasks.analyzers)
       IN  tasks' = [tasks EXCEPT
                        !.rows[t].status = "processing",
                        !.analyzers = IF a > Len(@) THEN Append(@, [session |-> 0]) ELSE @,
                        !.analyzer[t] = a,
                        !.pos[t] = "session"]
    /\ UNCHANGED others_than_tasks

\* lines 29-37: self.session = ClientSession(...); analysis_result = {...}
pair_create_session(t) ==
    /\ tasks.pos[t] = "session"
    /\ LET s == Len(tasks.sessions) + 1
           r == Len(tasks.dicts) + 1
       IN  tasks' = [tasks EXCEPT
                        !.sessions = Append(@, [closed |-> FALSE]),
                        !.analyzers[tasks.analyzer[t]].session = s,
                        !.opened[t] = s,
                        !.dicts = Append(@, [job_id |-> t, url |-> tasks.url[t],
                                             steps |-> EmptyDict]),
                        !.result[t] = r,
                        !.pos[t] = StageOrder[1]]
    /\ UNCHANGED others_than_tasks

\* one stage of lines 39-69
pair_stage(t) ==
    /\ tasks.pos[t] \in Stages
    /\ LET stage == tasks.pos[t]
           r == tasks.result[t]
           self == tasks.analyzers[tasks.analyzer[t]]
       IN  IF stage_raises(stage, tasks.url[t])
           THEN tasks' = [tasks EXCEPT !.raised[t] = "ValueError",
                                       !.pos[t] = "finally"]
           ELSE tasks' = [tasks EXCEPT
                             !.dicts[r].steps =
                                 Put(@, stage,
                                     stage_result(stage, tasks.url[t], tasks.dicts[r],
                                                  tasks.sessions[self.session])),
                             !.pos[t] = AfterStage(stage)]
    /\ UNCHANGED others_than_tasks

\* lines 72-73
pair_compile(t) ==
    /\ tasks.pos[t] = "compile"
    /\ \E clf \in PipelineClassifiers :
          LET r == tasks.result[t]
          IN  tasks' = [tasks EXCEPT
                           !.classifier[t] = clf,
                           !.dicts[r] = Put(@, "risk_assessment",
                                            compile_risk_assessment(@, clf)),
                           !.pos[t] = "summary"]
    /\ UNCHANGED others_than_tasks

\* lines 76-81, with the template summary
pair_summary(t) ==
    /\ tasks.pos[t] = "summary"
    /\ LET r == tasks.result[t]
       IN  tasks' = [tasks EXCEPT
                        !.dicts[r] = Put(@, "swedish_summary", generate_fallback_summary(@)),
                        !.pos[t] = "finally"]
    /\ UNCHANGED others_than_tasks

\* lines 86-88: if self.session: await self.session.close()
pair_finally(t) ==
    /\ tasks.pos[t] = "finally"
    /\ LET s == tasks.analyzers[tasks.analyzer[t]].session
       IN  tasks' = [tasks EXCEPT
                        !.sessions = IF s # 0 THEN [@ EXCEPT ![s].closed = TRUE] ELSE @,
                        !.pos[t] = "store"]
    /\ UNCHANGED others_than_tasks

\* the update of the row of the job: completed with the results, or failed
pair_store(t) ==
    /\ tasks.pos[t] = "store"
    /\ LET result == tasks.dicts[tasks.result[t]]
           risk_assessment == Get(result, "risk_assessment", EmptyDict)
       IN  tasks' = [tasks EXCEPT
                        !.rows[t] =
                            IF tasks.raised[t] = None
                            THEN [@ EXCEPT
                                    !.status = "completed",
                                    !.verdict = Get(risk_assessment, "verdict", None),
                                    !.confidence = Get(risk_assessment, "confidence", 0),
                                    !.evidence = Get(risk_assessment, "evidence", <<>>),
                                    !.analysis_data = result,
                                    !.completed_at = "utcnow"]
                            ELSE [@ EXCEPT !.status = "failed",
                                           !.error_message = tasks.raised[t],
                                           !.completed_at = "utcnow"],
                        !.pos[t] = "done"]
    /\ UNCHANGED others_than_tasks

NextPair ==
    \E t \in Tasks :
        \/ pair_task_start(t)
        \/ pair_create_session(t)
        \/ pair_stage(t)
        \/ pair_compile(t)
        \/ pair_summary(t)
        \/ pair_finally(t)
        \/ pair_store(t)

SpecPair == InitPair /\ [][NextPair]_vars

(***************************************************************************)
(* The two copies of the job runner, api.analyze_url_task and              *)
(* worker._analyze_url_async, run on one job each with the same outcome of *)
(* analyze and the same outcome of each write                              *)
(*                                                                         *)
(* runners.outcome  what analyzer.analyze does: it returns a result or     *)
(*                  raises                                                 *)
(* runners.writes   the outcome of the commit of each update               *)
(* runners.api, runners.worker  one runner each:                           *)
(*     pos       its position                                              *)
(*     updates   the values of the updates it issued, in order             *)
(*     row       the row of its job                                        *)
(*     result    the local result                                          *)
(*     e         the exception its except block caught                     *)
(*     returned  the value the coroutine returned                          *)
(***************************************************************************)
others_than_runners ==
    <<job_url, pc, analyze_vars, error, store_vars, origin, trace_result, calls,
      loop, tasks>>

\* results of analyze: two finished records with their assessment, and a
\* dict without risk_assessment
RunnerResults ==
    {Put(record, "risk_assessment", compile_risk_assessment(record, clf)) :
        record \in {RecordOf(UrlPlain, Redirects(0, 302, Response(200, NoLocation, HtmlPlain)),
                             BrowserPlain),
                    RecordOf(UrlIpLogin, Redirects(0, 302, Response(200, NoLocation, HtmlLogin)),
                             BrowserPhish)},
        clf \in {clf \in Classifiers : ~clf.is_trained}}
    \cup {[job_id |-> "job", url |-> UrlPlain, steps |-> EmptyDict]}

AnalyzeOutcomes ==
    {[kind |-> "returned", result |-> r, text |-> None] : r \in RunnerResults}
    \cup {[kind |-> "raised", result |-> EmptyDict, text |-> t] :
            t \in {"Invalid IPv6 URL", "cannot create ClientSession"}}

RunnerStart ==
    [pos |-> "processing", updates |-> <<>>, row |-> QueuedJob, result |-> EmptyDict,
     e |-> None, returned |-> None]

\* db.execute(update(AnalysisJob).where(id == job_id).values(...)); db.commit()
Issue(r, values, outcome) ==
    [r EXCEPT !.updates = Append(@, values),
              !.row = IF outcome = "committed" THEN Update(@, values) ELSE @]

\* an exception reaches the except block of the runner
Caught(r, text) == [r EXCEPT !.pos = "except", !.e = text]

InitRunners ==
    /\ \E o \in AnalyzeOutcomes,
          w \in [{"processing", "completed", "failed"} -> WriteOutcomes] :
          runners = [outcome |-> o, writes |-> w,
                     api |-> RunnerStart, worker |-> RunnerStart]
    /\ pc = "runners"
    /\ job_url = UrlPlain
    /\ session = "none"
    /\ analysis_result = EmptyDict
    /\ ran = <<>>
    /\ written = <<>>
    /\ pending = "none"
    /\ exit = "none"
    /\ error = None
    /\ job = NoJob
    /\ store_log = <<>>
    /\ origin = <<>>
    /\ trace_result = EmptyDict
    /\ calls = <<>>
    /\ loop = <<>>
    /\ tasks = <<>>

\* analysis.py lines 108-113
api_processing ==
    /\ runners.api.pos = "processing"
    /\ LET w == runners.writes["processing"]
           r == Issue(runners.api, [status |-> "processing"], w)
       IN  runners' = [runners EXCEPT
                          !.api = IF w = "committed" THEN [r EXCEPT !.pos = "analyze"]
                                  ELSE Caught(r, "db_error")]
    /\ UNCHANGED others_than_runners

\* analysis.py lines 116-117
api_analyze ==
    /\ runners.api.pos = "analyze"
    /\ runners' = [runners EXCEPT
                      !.api = IF runners.outcome.kind = "returned"
                              THEN [@ EXCEPT !.pos = "completed",
                                             !.result = runners.outcome.result]
                              ELSE Caught(@, runners.outcome.text)]
    /\ UNCHANGED others_than_runners

\* analysis.py lines 120-134
api_completed_values(result) ==
    LET risk_assessment == Get(result, "risk_assessment", EmptyDict)
    IN  [status |-> "completed",
         verdict |-> Get(risk_assessment, "verdict", None),
         confidence |-> Get(risk_assessment, "confidence", None),
         evidence |-> Get(risk_assessment, "evidence", <<>>),
         analysis_data |-> result,
         completed_at |-> "utcnow"]

api_completed ==
    /\ runners.api.pos = "completed"
    /\ LET w == runners.writes["completed"]
           r == Issue(runners.api, api_completed_values(runners.api.result), w)
       IN  runners' = [runners EXCEPT
                          !.api = IF w = "committed" THEN [r EXCEPT !.pos = "ended"]
                                  ELSE Caught(r, "db_error")]
    /\ UNCHANGED others_than_runners

\* analysis.py lines 136-149: an exception of this write leaves the task
api_except ==
    /\ runners.api.pos = "except"
    /\ LET w == runners.writes["failed"]
           r == Issue(runners.api,
                      [status |-> "failed", error_message |-> runners.api.e,
                       completed_at |-> "utcnow"], w)
       IN  runners' = [runners EXCEPT
                          !.api = IF w = "committed" THEN [r EXCEPT !.pos = "ended"]
                                  ELSE [r EXCEPT !.pos = "crashed"]]
    /\ UNCHANGED others_than_runners

\* worker.py lines 33-41
worker_processing ==
    /\ runners.worker.pos = "processing"
    /\ LET w == runners.writes["processing"]
           r == Issue(runners.worker, [status |-> "processing"], w)
       IN  runners' = [runners EXCEPT
                          !.worker = IF w = "committed" THEN [r EXCEPT !.pos = "analyze"]
                                     ELSE Caught(r, "db_error")]
    /\ UNCHANGED others_than_runners

\* worker.py lines 44-45
worker_analyze ==
    /\ runners.worker.pos = "analyze"
    /\ runners' = [runners EXCEPT
                      !.worker = IF runners.outcome.kind = "returned"
                                 THEN [@ EXCEPT !.pos = "completed",
                                                !.result = runners.outcome.result]
                                 ELSE Caught(@, runners.outcome.text)]
    /\ UNCHANGED others_than_runners

\* variant: the worker stores the verdict only
worker_completed_values_verdict_only(result) ==
    LET risk_assessment == Get(result, "risk_assessment", EmptyDict)
    IN  [status |-> "completed",
         verdict |-> Get(risk_assessment, "verdict", None),
         completed_at |-> "utcnow"]

\* worker.py lines 48-65
worker_completed_values(result) ==
    LET risk_assessment == Get(result, "risk_assessment", EmptyDict)
    IN  [status |-> "completed",
         verdict |-> Get(risk_assessment, "verdict", None),
         confidence |-> Get(risk_assessment, "confidence", None),
         evidence |-> Get(risk_assessment, "evidence", <<>>),
         analysis_data |-> result,
         completed_at |-> "utcnow"]

\* worker.py lines 48-67
worker_completed ==
    /\ runners.worker.pos = "completed"
    /\ LET w == runners.writes["completed"]
           r == Issue(runners.worker, worker_completed_values(runners.worker.result), w)
       IN  runners' = [runners EXCEPT
                          !.worker =
                              IF w = "committed"
                              THEN [r EXCEPT !.pos = "ended",
                                             !.returned = [status |-> "completed"]]
                              ELSE Caught(r, "db_error")]
    /\ UNCHANGED others_than_runners

\* worker.py lines 69-82: an exception of this write leaves the coroutine
worker_except ==
    /\ runners.worker.pos = "except"
    /\ LET w == runners.writes["failed"]
           r == Issue(runners.worker,
                      [status |-> "failed", error_message |-> runners.worker.e,
                       completed_at |-> "utcnow"], w)
       IN  runners' = [runners EXCEPT
                          !.worker =
                              IF w = "committed"
                              THEN [r EXCEPT !.pos = "ended",
                                             !.returned = [status |-> "failed",
                                                           error |-> runners.worker.e]]
                              ELSE [r EXCEPT !.pos = "crashed"]]
    /\ UNCHANGED others_than_runners

NextRunners ==
    \/ api_processing
    \/ api_analyze
    \/ api_completed
    \/ api_except
    \/ worker_processing
    \/ worker_analyze
    \/ worker_completed
    \/ worker_except

SpecRunners == InitRunners /\ [][NextRunners]_vars

(***************************************************************************)
(* Properties of analyze and of the job runner                             *)
(***************************************************************************)
Steps == Get(analysis_result, "steps", EmptyDict)

ErrorKeys ==
    {"dns_error", "whois_error", "cert_error", "http_error", "content_error",
     "content_analysis_error", "error"}

HasError(result) == (DOMAIN result) \cap ErrorKeys # {}
HasPayload(result) == (DOMAIN result) \ ErrorKeys # {}

Last(seq) == seq[Len(seq)]

\* C1: a run of analyze that returns has written the eight stage results in
\* the order normalization, dns_whois, tls_cert, http_analysis,
\* token_analysis, reputation, content_analysis, screenshot_analysis, then
\* the risk assessment, then the summary; every operation ran exactly once,
\* and no run starts an operation twice.
StagesInOrderOnce ==
    /\ \A i, j \in 1..Len(ran) : ran[i] = ran[j] => i = j
    /\ exit = "returned" =>
          /\ ran = <<"normalization", "dns_whois", "tls_cert", "http_analysis",
                     "token_analysis", "reputation", "content_analysis",
                     "screenshot_analysis", "compile", "summary">>
          /\ written = <<"normalization", "dns_whois", "tls_cert", "http_analysis",
                         "token_analysis", "reputation", "content_analysis",
                         "screenshot_analysis", "risk_assessment", "swedish_summary">>

\* a returning run in which lookups of several stages failed
ReturnedDespiteStageErrors ==
    /\ exit = "returned"
    /\ "dns_error" \in DOMAIN Steps["dns_whois"]
    /\ "cert_error" \in DOMAIN Steps["tls_cert"]
    /\ "http_error" \in DOMAIN Steps["http_analysis"]

\* C2: a failure inside a stage stays in that stage: the try body of analyze
\* is never left by an exception of one of the eight stages.
StageFailuresStayLocal ==
    pending = "raise" => (ran = <<>> \/ Last(ran) \notin Stages)

\* C3 as claimed: the returned record has one entry per stage, each either a
\* success payload or an error, never both and never neither.
EveryStepPayloadXorError ==
    exit = "returned" =>
        /\ DOMAIN Steps = Stages
        /\ \A st \in Stages : HasError(Steps[st]) # HasPayload(Steps[st])

\* C3 amended: the returned record has exactly one entry per stage; the
\* normalization, token_analysis and reputation entries are payloads without
\* an error; the content_analysis entry is a payload or an error, never both,
\* never neither; the tls_cert entry is never both, and is empty exactly for
\* a URL that is not https; the dns_whois, http_analysis and
\* screenshot_analysis entries are never empty and may hold an error field
\* together with payload fields.
StepsShape ==
    exit = "returned" =>
        /\ DOMAIN Steps = Stages
        /\ \A st \in {"normalization", "token_analysis", "reputation"} :
              HasPayload(Steps[st]) /\ ~HasError(Steps[st])
        /\ HasError(Steps["content_analysis"]) # HasPayload(Steps["content_analysis"])
        /\ ~(HasError(Steps["tls_cert"]) /\ HasPayload(Steps["tls_cert"]))
        /\ (Steps["tls_cert"] = EmptyDict) = (NormalizedUrl(job_url).scheme # "https")
        /\ \A st \in {"dns_whois", "http_analysis", "screenshot_analysis"} :
              HasPayload(Steps[st]) \/ HasError(Steps[st])

\* a returned record with an empty entry and an entry with error and payload
EmptyAndMixedEntries ==
    /\ exit = "returned"
    /\ Steps["tls_cert"] = EmptyDict
    /\ HasError(Steps["http_analysis"]) /\ HasPayload(Steps["http_analysis"])
    /\ HasError(Steps["screenshot_analysis"])

Terminal == {"completed", "failed"}

SessionScopedToAnalyze ==
    /\ exit # "none" => session \in {"none", "closed"}
    /\ pc \in Stages \cup {"compile", "summary"} => session = "open"
    /\ session = "closed" => exit # "none"
    /\ session = "none" => ran = <<>>

\* analyze ended by an exception of a stage, and its session is closed
ClosedAfterStageException ==
    /\ exit = "raised"
    /\ ran # <<>>
    /\ Last(ran) \in Stages
    /\ session = "closed"

(***************************************************************************)
(* Properties of redirect tracing                                          *)
(***************************************************************************)
\* the server answers n redirects with a Location header and then a 200
RedirectsThenOk(n) ==
    /\ Len(origin) = n + 1
    /\ ~IsError(origin[n + 1])
    /\ origin[n + 1].status = 200

\* the URL of request number k, resolving each Location against its request
RECURSIVE RequestedUrl(_)
RequestedUrl(k) ==
    IF k = 1 THEN StartUrl
    ELSE urljoin(RequestedUrl(k - 1), origin[k - 1].location)

\* C6: against a server that answers N redirects and then a 200, the tracing
\* records exactly N hops, final_url is the URL that answered 200 and
\* status_code is 200 when N <= 5; it records exactly 5 hops when N = 6.
RedirectChainLength ==
    pc = "http_done" =>
        /\ \A n \in 0..5 :
              RedirectsThenOk(n) =>
                  /\ Len(trace_result.redirect_chain) = n
                  /\ trace_result.final_url = RequestedUrl(n + 1)
                  /\ trace_result.status_code = 200
        /\ RedirectsThenOk(6) => Len(trace_result.redirect_chain) = 5

\* six redirects were answered and five hops are recorded
SixRedirectsFiveHops ==
    /\ pc = "http_done"
    /\ RedirectsThenOk(6)
    /\ Len(trace_result.redirect_chain) = 5
    /\ trace_result.status_code \in RedirectCodes

\* C18: a network error of the initial GET or of a re-fetch is recorded as
\* http_error on the result the stage returns, and the hops recorded before
\* the error are in its redirect_chain.
NetworkErrorIsRecorded ==
    pc = "http_done" =>
        \A k \in 1..6 :
            (Len(origin) >= k /\ IsError(origin[k])) =>
                /\ {"redirect_chain", "final_url", "status_code", "http_error"}
                       \subseteq DOMAIN trace_result
                /\ trace_result.http_error = origin[k].error
                /\ Len(trace_result.redirect_chain) = k - 1
                /\ \A j \in 1..(k - 1) :
                       trace_result.redirect_chain[j] =
                           [url |-> RequestedUrl(j), status |-> origin[j].status,
                            location |-> origin[j].location]

\* the re-fetch after the third hop failed
ThreeHopsThenError ==
    /\ pc = "http_done"
    /\ Len(origin) = 4
    /\ IsError(origin[4])
    /\ Len(trace_result.redirect_chain) = 3
    /\ "http_error" \in DOMAIN trace_result

(***************************************************************************)
(* Properties of risk compilation                                          *)
(***************************************************************************)
Count(seq, Test(_)) == Cardinality({i \in 1..Len(seq) : Test(seq[i])})

Indicators == Get(Steps["screenshot_analysis"], "phishing_indicators", <<>>)

HopCount == Len(Steps["http_analysis"].redirect_chain)

\* the rule contributions of the analysis record, in risk points
RulePoints ==
    (IF Steps["normalization"].is_ip THEN 12 ELSE 0)
    + (IF Steps["normalization"].has_punycode THEN 8 ELSE 0)
    + (IF Steps["normalization"].url_length > 100 THEN 4 ELSE 0)
    + (IF HopCount > 2 THEN 6 * HopCount ELSE 0)
    + (IF Get(Steps["content_analysis"], "has_login_form", FALSE) THEN 10 ELSE 0)
    + 4 * Len(Steps["token_analysis"].suspicious_keywords)
    + 16 * Count(Indicators, LAMBDA t : Contains(t, "external domain"))
    + 12 * Count(Indicators, LAMBDA t : /\ ~Contains(t, "external domain")
                                        /\ Contains(t, "login form"))
    + 6 * Count(Indicators, LAMBDA t : /\ ~Contains(t, "external domain")
                                       /\ ~Contains(t, "login form")
                                       /\ Contains(t, "external scripts"))

\* C7: the risk score of every call is phishing_score x 100 x 0.6 plus the
\* rule contributions (+12 is_ip, +8 punycode, +4 length > 100, +6 per hop
\* when more than 2 hops, +10 login form, +4 per keyword, the indicator
\* weights), and nothing else.
RiskScoreIsSumOfContributions ==
    \A c \in 1..Len(calls) :
        \* risk_score / 1000 = (phishing_score / 10000) * 100 * 0.6 + RulePoints
        calls[c].assessment.risk_score * 10
            = Get(calls[c].ml_result, "phishing_score", 0) * 60 + RulePoints * 10000

\* a call with a classifier score and with every kind of rule triggered
EveryRuleKindTriggered ==
    /\ Len(calls) >= 1
    /\ Get(calls[1].ml_result, "phishing_score", 0) > 0
    /\ Steps["normalization"].is_ip
    /\ Steps["normalization"].url_length > 100
    /\ HopCount > 2
    /\ Get(Steps["content_analysis"], "has_login_form", FALSE)
    /\ Len(Steps["token_analysis"].suspicious_keywords) > 1
    /\ Len(Indicators) = 3

\* C8: the verdict of every call follows from its risk score alone:
\* dangerous from 70 on, suspicious from 40 up to 70, safe below 40.
VerdictFromRiskScore ==
    \A c \in 1..Len(calls) :
        LET a == calls[c].assessment IN
        /\ a.risk_score >= 70000 => a.verdict = "dangerous"
        /\ (a.risk_score >= 40000 /\ a.risk_score < 70000) => a.verdict = "suspicious"
        /\ a.risk_score < 40000 => a.verdict = "safe"

\* a call whose risk score is exactly 70 and whose verdict is dangerous
ThresholdIsInclusive ==
    /\ Len(calls) >= 1
    /\ calls[1].assessment.risk_score = 70000
    /\ calls[1].assessment.verdict = "dangerous"

IsPrefix(word, text) == Len(text) >= Len(word) /\ SubSeq(text, 1, Len(word)) = word

\* the group of an evidence string: 1 classifier, 2 URL structure,
\* 3 redirects, 4 content, 5 lexical, 6 dynamic indicator
EvidenceGroup(text) ==
    IF IsPrefix("ML classifier ", text) THEN 1
    ELSE IF text \in {"URL uses IP address instead of domain name",
                      "URL contains punycode (internationalized domain)",
                      "Unusually long URL"} THEN 2
    ELSE IF IsPrefix("Multiple redirects detected", text) THEN 3
    ELSE IF text = "Contains login form" THEN 4
    ELSE IF IsPrefix("Contains suspicious keywords: ", text) THEN 5
    ELSE 6

\* C9: the evidence of every call is the first 6 strings appended (all when
\* fewer), in the order appended, and the strings were appended group by
\* group: classifier, URL structure, redirects, content, lexical, dynamic.
EvidenceIsFirstSix ==
    \A c \in 1..Len(calls) :
        LET shown == calls[c].assessment.evidence
            all == calls[c].appended
        IN  /\ Len(shown) = (IF Len(all) < 6 THEN Len(all) ELSE 6)
            /\ \A i \in 1..Len(shown) : shown[i] = all[i]
            /\ \A i, j \in 1..Len(all) :
                  i < j => EvidenceGroup(all[i]) <= EvidenceGroup(all[j])
            /\ Len(all) = (IF Get(calls[c].ml_result, "classification", None)
                                  \in {"phishing", "suspicious"} THEN 1 ELSE 0)
                          + Cardinality({k \in {"is_ip", "has_punycode"} :
                                            Steps["normalization"][k]})
                          + (IF Steps["normalization"].url_length > 100 THEN 1 ELSE 0)
                          + (IF HopCount > 2 THEN 1 ELSE 0)
                          + (IF Get(Steps["content_analysis"], "has_login_form", FALSE)
                             THEN 1 ELSE 0)
                          + (IF Len(Steps["token_analysis"].suspicious_keywords) > 0
                             THEN 1 ELSE 0)
                          + Len(Indicators)

\* more than six strings were appended, the last of them with the largest
\* weight of all, and it is not shown
HeavyEvidenceCutOff ==
    /\ Len(calls) >= 1
    /\ Len(calls[1].appended) > 6
    /\ Contains(calls[1].appended[7], "external domain")
    /\ Len(calls[1].assessment.evidence) = 6

OnModelPath(call) == call.clf.is_trained /\ ~call.clf.predict_raises

\* C11: on the model path phishing_score = 0.7 x url_score + 0.3 x text_score,
\* score >= 0.7 gives phishing with confidence min(95, score x 100),
\* 0.4 <= score < 0.7 gives suspicious with confidence min(85, score x 100),
\* score < 0.4 gives legitimate with confidence min(90, (1 - score) x 100);
\* url_score 0.8 and text_score 0.5 give 0.71, phishing, confidence 71
ModelPathScoreAndTag ==
    \A i \in 1..Len(calls) :
        LET r == calls[i].ml_result
            score == r.phishing_score
        IN  (pc = "classified" /\ OnModelPath(calls[i])) =>
                /\ r.url_score = calls[i].clf.url_score
                /\ score * 10 = 7 * r.url_score + 3 * r.text_score
                /\ score >= 7000 =>
                       /\ r.classification = "phishing"
                       /\ r.confidence = Min(9500, score)
                /\ (score >= 4000 /\ score < 7000) =>
                       /\ r.classification = "suspicious"
                       /\ r.confidence = Min(8500, score)
                /\ score < 4000 =>
                       /\ r.classification = "legitimate"
                       /\ r.confidence = Min(9000, ScoreOne - score)
                /\ (r.url_score = 8000 /\ r.text_score = 5000) =>
                       /\ score = 7100
                       /\ r.classification = "phishing"
                       /\ r.confidence = 7100

\* the example of the claim: url_score 0.8 and text_score 0.5 on the model path
ScoredSeventyOne ==
    /\ pc = "classified"
    /\ OnModelPath(calls[1])
    /\ calls[1].ml_result.url_score = 8000
    /\ calls[1].ml_result.text_score = 5000

\* C12: every result of classify, on the model path and on the fallback
\* path, has phishing_score in [0,1], confidence in [0,100] and a tag in
\* {legitimate, suspicious, phishing}
ClassificationInRange ==
    \A i \in 1..Len(calls) :
        LET r == calls[i].ml_result
        IN  pc = "classified" =>
                /\ r.phishing_score >= 0 /\ r.phishing_score <= ScoreOne
                /\ r.confidence >= 0 /\ r.confidence <= 100 * 100
                /\ r.classification \in {"legitimate", "suspicious", "phishing"}

\* the additions of the rule-based fallback for the analysis record, in
\* units of 1/10000; the URL is the one analyze was called with
FallbackAdditions ==
    (IF RawLength(analysis_result.url) > 100 THEN 2000 ELSE 0)
    + (IF analysis_result.url.shortener THEN 3000 ELSE 0)
    + (IF analysis_result.url.embeds_ipv4 THEN 4000 ELSE 0)
    + (IF HopCount > 2 THEN 3000 ELSE 0)
    + (IF Get(Steps["content_analysis"], "has_login_form", FALSE) THEN 2000 ELSE 0)

\* the part of a call's risk score that is not a rule contribution
ClassifierContribution(c) == calls[c].assessment.risk_score - RulePoints * RiskPoint

MLEvidence(c) ==
    SelectSeq(calls[c].appended, LAMBDA t : IsPrefix("ML classifier", t))

FallbackScoreAndTag ==
    \A i \in 1..Len(calls) :
        LET r == calls[i].ml_result
            score == r.phishing_score
        IN  (pc = "classified" /\ ~OnModelPath(calls[i])) =>
                /\ score = FallbackAdditions
                /\ score >= 6000 =>
                       r.classification = "phishing" /\ r.confidence = 7500
                /\ (score >= 3000 /\ score < 6000) =>
                       r.classification = "suspicious" /\ r.confidence = 7000
                /\ score < 3000 =>
                       r.classification = "legitimate" /\ r.confidence = 8000

\* an untrained classifier scored exactly 0.6 from a shortener URL with
\* more than 2 redirects
FallbackAtThreshold ==
    /\ pc = "classified"
    /\ ~calls[1].clf.is_trained
    /\ calls[1].ml_result.phishing_score = 6000
    /\ analysis_result.url.shortener
    /\ HopCount > 2

(***************************************************************************)
(* Properties of the risk score and of the stages                          *)
(***************************************************************************)
Clamp(x, low, high) == IF x < low THEN low ELSE IF x > high THEN high ELSE x

\* C15: the confidence of every assessment is 100 - |risk_score - 50|
\* clamped to [60, 95]; it is 95 exactly when 45 <= risk_score <= 55 and 60
\* exactly when risk_score <= 10 or risk_score >= 90.
ConfidenceIsClamped ==
    \A c \in 1..Len(calls) :
        LET risk == calls[c].assessment.risk_score
            confidence == calls[c].assessment.confidence
            distance == IF risk >= 50 * RiskPoint THEN risk - 50 * RiskPoint
                        ELSE 50 * RiskPoint - risk
        IN  /\ confidence = Clamp(100 * RiskPoint - distance, 60 * RiskPoint, 95 * RiskPoint)
            /\ confidence >= 60 * RiskPoint /\ confidence <= 95 * RiskPoint
            /\ confidence = 95 * RiskPoint
                   <=> (risk >= 45 * RiskPoint /\ risk <= 55 * RiskPoint)
            /\ confidence = 60 * RiskPoint
                   <=> (risk <= 10 * RiskPoint \/ risk >= 90 * RiskPoint)

\* one record gave a risk score within 45..55, and one above 100
BothClampsHit ==
    /\ Len(calls) = 2
    /\ calls[1].assessment.confidence = 95 * RiskPoint
    /\ calls[2].assessment.risk_score > 100 * RiskPoint
    /\ calls[2].assessment.confidence = 60 * RiskPoint

\* C16: risk_score never decreases from one contribution to the next; it is
\* >= 0 after every step and the final risk_score is at least the
\* classifier contribution.
RiskScoreNeverDecreases ==
    \A c \in 1..Len(calls) :
        LET partial == calls[c].partial
        IN  /\ partial[1] = 0
            /\ \A k \in 1..(Len(partial) - 1) : partial[k] <= partial[k + 1]
            /\ \A k \in 1..Len(partial) : partial[k] >= 0
            /\ partial[Len(partial)] = calls[c].assessment.risk_score
            /\ calls[c].assessment.risk_score >= partial[2] - partial[1]

\* a call in which the classifier, a rule of every group and two indicators
\* each raised the score
EveryStepRaised ==
    /\ Len(calls) >= 1
    /\ Len(calls[1].partial) >= 8
    /\ \A k \in 1..(Len(calls[1].partial) - 1) :
           calls[1].partial[k] < calls[1].partial[k + 1]

\* C17: the normalization stage never fails: for every input string
\* _normalize_and_check_url returns a normalized URL and a feature record
\* and never raises, so it cannot abort analyze.
NormalizationNeverRaises ==
    /\ (ran # <<>> /\ Last(ran) = "normalization") => pending # "raise"
    /\ (Len(ran) > 1 /\ ran[1] = "normalization") => "normalization" \in DOMAIN Steps

\* the dynamic collector failed: the entry of the stage holds an error
CollectorFailed ==
    /\ "screenshot_analysis" \in DOMAIN Steps
    /\ "error" \in DOMAIN Steps["screenshot_analysis"]

\* C19: if the dynamic collector fails (browser start raises, page load
\* times out, the collector returns an error field) the stage returns a
\* result with an empty phishing_indicators list, the dynamic rules add 0
\* to risk_score, and analyze goes on to compile a risk assessment.
CollectorFailureDegrades ==
    /\ (ran # <<>> /\ Last(ran) = "screenshot_analysis") =>
           (pending # "raise" /\ "screenshot_analysis" \in DOMAIN Steps)
    /\ CollectorFailed =>
           /\ Steps["screenshot_analysis"].phishing_indicators = <<>>
           /\ screenshot_rules([risk_score |-> 0, evidence |-> <<>>],
                               Steps["screenshot_analysis"].phishing_indicators)
                  = [risk_score |-> 0, evidence |-> <<>>]
           /\ pc = "compile" \/ "risk_assessment" \in DOMAIN analysis_result

\* analyze returned a record whose headless browser timed out on a page
\* that carries a login form posting to another host
ReturnedAfterPageTimeout ==
    /\ exit = "returned"
    /\ CollectorFailed
    /\ Steps["screenshot_analysis"].error = "Page load timeout"
    /\ Steps["screenshot_analysis"].analysis_success
    /\ "risk_assessment" \in DOMAIN analysis_result

\* the indicator matches one of the three substrings
Matches(t) ==
    \/ Contains(t, "external domain")
    \/ Contains(t, "login form")
    \/ Contains(t, "external scripts")

SetupErrorText == "cannot create ClientSession"

\* aiohttp.ClientSession(...) raised at line 29: no session, and the try
\* body of analyze was left by an exception
SetupFailed == session = "none" /\ pending = "raise"

StatusesQueuedProcessingTerminal ==
    /\ \E full \in {<<"queued", "processing", "completed">>,
                     <<"queued", "processing", "failed">>} :
           \E n \in 0..3 : store_log = SubSeq(full, 1, n)
    /\ pc \in {"done", "crashed"} => Len(store_log) = 3

\* the sequences of statuses one job can have committed
LifecycleLogs ==
    {<<>>, <<"queued">>, <<"queued", "processing">>, <<"queued", "failed">>,
     <<"queued", "processing", "completed">>, <<"queued", "processing", "failed">>}

\* C22 amended: the statuses committed for one job are queued, then
\* processing unless its write raised, then at most one of completed or
\* failed; queued is committed before the background task starts, completed
\* is written after processing only, and once a terminal status is
\* committed the row is never written again.
LifecycleOrder ==
    /\ [](/\ store_log \in LifecycleLogs
          /\ job.status = (IF store_log = <<>> THEN "absent" ELSE Last(store_log))
          /\ pc \notin {"submit", "rejected"} => (store_log # <<>> /\ store_log[1] = "queued")
          /\ pc = "rejected" => store_log = <<>>)
    /\ [][/\ job.status \in Terminal => (job' = job /\ store_log' = store_log)
          /\ store_log' # store_log => store_log' = Append(store_log, job'.status)
          /\ job' # job => store_log' # store_log]_vars

\* a job that went through queued, processing and completed
CompletedAfterProcessing ==
    /\ pc = "done"
    /\ store_log = <<"queued", "processing", "completed">>
    /\ job.status = "completed"
    /\ job.verdict \in {"safe", "suspicious", "dangerous"}

(***************************************************************************)
(* Properties of two concurrent jobs                                       *)
(***************************************************************************)
\* the record analyze builds for the job of task t when it runs alone, cut
\* to the keys the task has written
AloneRecord(t) ==
    LET alone == RecordOf(tasks.url[t], PairServer, BrowserPhish)
        mine == tasks.dicts[tasks.result[t]]
        steps == [st \in DOMAIN mine.steps |-> alone.steps[st]]
        base == [job_id |-> t, url |-> tasks.url[t], steps |-> steps]
        assessed == IF "risk_assessment" \in DOMAIN mine
                    THEN Put(base, "risk_assessment",
                             compile_risk_assessment(alone, tasks.classifier[t]))
                    ELSE base
    IN  IF "swedish_summary" \in DOMAIN mine
        THEN Put(assessed, "swedish_summary", generate_fallback_summary(assessed))
        ELSE assessed

\* task t is inside analyze, after the construction of its session
InAnalyze(t) == tasks.pos[t] \in Stages \cup {"compile", "summary", "finally"}

\* C23: for any interleaving of two jobs, the analyzer, the session and the
\* analysis record of a job are objects of its own; the session a job uses
\* is the one it constructed and it is open until the job's own finally
\* block; the record, the risk assessment and the stored row of a job are
\* the ones of the job run alone with the classifier its call constructed.
JobsAreIsolated ==
    \A t \in Tasks :
        /\ \A u \in Tasks \ {t} :
              /\ tasks.analyzer[t] # 0 => tasks.analyzer[t] # tasks.analyzer[u]
              /\ tasks.opened[t] # 0 => tasks.opened[t] # tasks.opened[u]
              /\ tasks.result[t] # 0 => tasks.result[t] # tasks.result[u]
        /\ InAnalyze(t) =>
              /\ tasks.analyzers[tasks.analyzer[t]].session = tasks.opened[t]
              /\ ~tasks.sessions[tasks.opened[t]].closed
        /\ tasks.pos[t] \in {"store", "done"} => tasks.sessions[tasks.opened[t]].closed
        /\ tasks.result[t] # 0 =>
              /\ tasks.dicts[tasks.result[t]] = AloneRecord(t)
              /\ \E k \in 0..Len(StageOrder) :
                    DOMAIN tasks.dicts[tasks.result[t]].steps
                        = {StageOrder[i] : i \in 1..k}
        /\ tasks.rows[t].status = "completed" =>
              /\ tasks.rows[t].analysis_data = AloneRecord(t)
              /\ tasks.rows[t].verdict = AloneRecord(t).risk_assessment.verdict
        /\ tasks.rows[t].status = "failed" => tasks.raised[t] # None

\* the job that started second has finished and closed its session while
\* the first is still fetching
OneFinishedOtherFetching ==
    /\ tasks.pos[1] = "http_analysis"
    /\ tasks.pos[2] = "done"
    /\ tasks.opened[1] < tasks.opened[2]
    /\ tasks.sessions[tasks.opened[2]].closed
    /\ ~tasks.sessions[tasks.opened[1]].closed

(***************************************************************************)
(* Properties of the redirect loop                                         *)
(***************************************************************************)
\* the answer to request k is a redirect the loop may follow
Followable(k) ==
    /\ ~IsError(AnswerTo(origin, k))
    /\ AnswerTo(origin, k).status \in RedirectCodes
    /\ AnswerTo(origin, k).location # NoLocation

\* the answers the loop can ask an endless server for
Unrolled(server) ==
    IF server.endless THEN [k \in 1..(MaxHops + 1) |-> AnswerTo(server, k)]
    ELSE server.answers

\* C24: redirect tracing terminates for every server, a redirect cycle and
\* an endless chain included; it issues at most 6 GET requests and
\* redirect_chain never holds more than 5 hops; it stops at the first
\* response that has a non-redirect status or a redirect status without a
\* Location header, and records no hop for that response.
RedirectTracingTerminates ==
    /\ <>(pc = "http_done")
    /\ [](/\ loop.requests <= 6
          /\ trace_result # EmptyDict =>
                /\ Len(trace_result.redirect_chain) <= 5
                /\ Len(trace_result.redirect_chain) = loop.redirect_count
                /\ \A j \in 1..Len(trace_result.redirect_chain) :
                       /\ Followable(j)
                       /\ trace_result.redirect_chain[j].status = AnswerTo(origin, j).status
                       /\ trace_result.redirect_chain[j].location
                              = AnswerTo(origin, j).location
          /\ (pc = "http_done" /\ "http_error" \notin DOMAIN trace_result) =>
                /\ Len(trace_result.redirect_chain) = loop.requests - 1
                /\ trace_result.status_code = AnswerTo(origin, loop.requests).status
                /\ trace_result.final_url = loop.current_url
                /\ loop.requests <= 5 => ~Followable(loop.requests)
          /\ pc = "http_done" =>
                trace_result = http_fetch_and_redirects(StartUrl, Unrolled(origin)))

\* the tracing of a server that redirects to the same URL for ever ended
\* after 6 requests with 5 hops
CycleCutAtFiveHops ==
    /\ pc = "http_done"
    /\ origin.endless
    /\ Len(origin.answers) = 1
    /\ loop.requests = 6
    /\ Len(trace_result.redirect_chain) = 5
    /\ trace_result.redirect_chain[5].url = loop.current_url

(***************************************************************************)
(* Properties of the verdict                                               *)
(***************************************************************************)
TaggedPhishing(c) == Get(calls[c].ml_result, "classification", None) = "phishing"

\* C25 as claimed: whenever the classification the risk compiler used is
\* tagged phishing, on the model path or on the fallback path, the verdict
\* is suspicious or dangerous, never safe.
PhishingTagNeverSafe ==
    \A c \in 1..Len(calls) :
        TaggedPhishing(c) => calls[c].assessment.verdict \in {"suspicious", "dangerous"}

\* the URL passes 100 characters only with the whitespace normalization
\* strips
LongByPaddingOnly ==
    /\ RawLength(analysis_result.url) > 100
    /\ Steps["normalization"].url_length <= 100

\* C25 amended: a classification tagged phishing contributes at least 42 to
\* risk_score on the model path and at least 36 on the fallback path; the
\* verdict is suspicious or dangerous on the model path, and on the fallback
\* path unless the URL is longer than 100 characters only with the
\* whitespace around it.
PhishingTagNeverSafeUnlessPadded ==
    \A c \in 1..Len(calls) :
        TaggedPhishing(c) =>
            /\ OnModelPath(calls[c]) => ClassifierContribution(c) >= 42 * RiskPoint
            /\ ClassifierContribution(c) >= 36 * RiskPoint
            /\ (OnModelPath(calls[c]) \/ ~LongByPaddingOnly) =>
                   calls[c].assessment.verdict \in {"suspicious", "dangerous"}

\* the fallback tagged a URL phishing at exactly 0.6 and the long-URL rule
\* took the risk score to exactly 40
FallbackPhishingAtForty ==
    /\ Len(calls) >= 1
    /\ ~calls[1].clf.is_trained
    /\ TaggedPhishing(1)
    /\ calls[1].ml_result.phishing_score = 6000
    /\ calls[1].assessment.risk_score = 40 * RiskPoint
    /\ calls[1].assessment.verdict = "suspicious"

(***************************************************************************)
(* Properties of a page that was not fetched                               *)
(***************************************************************************)
\* the HTTP stage did not end with a successfully read 200
NotRead200(http_data) ==
    "http_error" \in DOMAIN http_data \/ http_data.status_code # 200

ZeroRisk == [risk_score |-> 0, evidence |-> <<>>]

\* the analysis record without the result of the content stage
WithoutContent ==
    [job_id |-> analysis_result.job_id, url |-> analysis_result.url,
     steps |-> [k \in (DOMAIN Steps) \ {"content_analysis"} |-> Steps[k]]]

\* C27: if the HTTP stage does not end with a successfully read 200 (an
\* http_error is recorded or the terminal status is not 200), html_content
\* is empty, the content stage records an error result without
\* has_login_form, and the login-form rule adds nothing to risk_score nor
\* to the score of the rule-based fallback classification.
NoPageNoLoginPoints ==
    ("http_analysis" \in DOMAIN Steps /\ NotRead200(Steps["http_analysis"])) =>
        /\ Steps["http_analysis"].html_content = NoHtml
        /\ "content_analysis" \in DOMAIN Steps =>
              /\ HasError(Steps["content_analysis"])
              /\ ~HasPayload(Steps["content_analysis"])
              /\ "has_login_form" \notin DOMAIN Steps["content_analysis"]
              /\ content_rules(ZeroRisk, Steps) = ZeroRisk
              /\ fallback_classification(job_url, analysis_result).phishing_score
                    = fallback_classification(job_url, WithoutContent).phishing_score
        /\ "risk_assessment" \in DOMAIN analysis_result =>
              \A clf \in PipelineClassifiers :
                  LET acc == risk_accumulation(analysis_result,
                                               ml_classification(clf, analysis_result))
                  IN  \A e \in 1..Len(acc.evidence) :
                          acc.evidence[e] # "Contains login form"

\* a run compiled its assessment over a 404 answer
CompiledOverNotFound ==
    /\ "content_analysis" \in DOMAIN Steps
    /\ "risk_assessment" \in DOMAIN analysis_result
    /\ "http_error" \notin DOMAIN Steps["http_analysis"]
    /\ Steps["http_analysis"].status_code = 404
    /\ "content_error" \in DOMAIN Steps["content_analysis"]

(***************************************************************************)
(* Properties of the feature vector                                        *)
(***************************************************************************)
\* classify has been called on the record of the run
Classified == "risk_assessment" \in DOMAIN analysis_result

\* C28 as claimed: in every pipeline run the domain-age feature handed to
\* the classifier is 365 whatever WHOIS returned, because no stage writes
\* domain_age_days into the dns_whois result.
DomainAgeAlwaysDefault ==
    Classified => extract_url_features(job_url, analysis_result).domain_age = UnknownAge

\* C28 amended: no stage writes domain_age_days into the dns_whois result,
\* so whatever WHOIS returned the domain-age feature is 365 in every
\* pipeline run whose feature extraction succeeds; when urlparse rejects
\* the submitted string the whole vector is zero, the domain age included.
DomainAgeDefaultOrZeroVector ==
    /\ "dns_whois" \in DOMAIN Steps => "domain_age_days" \notin DOMAIN Steps["dns_whois"]
    /\ Classified =>
          LET features == extract_url_features(job_url, analysis_result)
          IN  IF RawParses(job_url)
              THEN features.domain_age = UnknownAge
              ELSE \A k \in DOMAIN features : features[k] = 0

\* a run classified a URL whose WHOIS record holds a creation date
ClassifiedWithCreationDate ==
    /\ Classified
    /\ RawParses(job_url)
    /\ Get(Steps["dns_whois"], "creation_date", None) = "2001-01-01"
    /\ extract_url_features(job_url, analysis_result).domain_age = UnknownAge

(***************************************************************************)
(* Properties of the two copies of the runner                              *)
(***************************************************************************)
Ended(r) == r.pos \in {"ended", "crashed"}

\* C26: worker._analyze_url_async and api.analyze_url_task are equivalent
\* with respect to the job store: for the same outcome of analyze and the
\* same outcome of each store write they issue the same sequence of status
\* updates with the same stored fields, and leave the same row.
RunnersAreEquivalent ==
    LET a == runners.api
        w == runners.worker
    IN  /\ \/ IsPrefix(a.updates, w.updates)
           \/ IsPrefix(w.updates, a.updates)
        /\ (Ended(a) /\ Ended(w)) =>
              /\ a.updates = w.updates
              /\ a.row = w.row
              /\ a.pos = w.pos

\* both runners stored a returned result, the worker after the api runner
BothStoredTheResult ==
    /\ runners.api.pos = "ended"
    /\ runners.worker.pos = "ended"
    /\ runners.api.row.status = "completed"
    /\ runners.worker.row.status = "completed"
    /\ runners.worker.row.verdict = "dangerous"
    /\ Len(runners.worker.updates) = 2

====
